---- MODULE Spec2Model ----
(***************************************************************************)
(* Payable asset smart contract: the lifecycle of payables registered      *)
(* against scopes (register, oracle approval, payment) and the migration   *)
(* of the contract configuration.  The record of a payable lives in an     *)
(* attribute on its scope, written by the host ledger when it applies the  *)
(* messages of a successful call; local storage holds the configuration,   *)
(* the version info and the payable uuid -> scope id link.                 *)
(***************************************************************************)
EXTENDS Integers, Sequences, FiniteSets, TLC

VARIABLES
    config,             \* State singleton of the earlier generation, if stored
    payable_meta,       \* bucket payable_uuid -> PayableMeta of the earlier generation
    config_v2,          \* StateV2 singleton (core/state.rs), if stored
    version_info,       \* stored contract identifier and semantic version
    payable_meta_v2,    \* bucket payable_uuid -> PayableMetaV2
    scope_attributes,   \* host attribute registry: scope id -> attributes under contract_name
    scopes,             \* host scope registry: scope id -> Scope
    hist,               \* per scope: what the successful calls on its payable did
    last                \* the last call that succeeded

vars ==
    <<config, payable_meta, config_v2, version_info, payable_meta_v2, scope_attributes,
      scopes, hist, last>>

-----------------------------------------------------------------------------
(* Bounds of the model *)

\* largest payable_total a RegisterPayable message carries
MaxTotal == 2
\* largest amount of one deposited coin
MaxAmount == 1
\* largest number of coins in one deposit
MaxCoins == 2
\* largest onboarding cost of a configuration
MaxCost == 3

-----------------------------------------------------------------------------
(* The universe the calls draw their inputs from *)

PayableUuids == {"uuid1", "uuid2"}
ScopeIds == {"scope1", "scope2"}
Addrs == {"admin", "matt"}
OracleAddrs == {"matt"}
Denoms == {"nhash", "usd"}
PayableDenoms == {"usd"}
PayableTypes == {"invoice"}

\* the coins of a deposit: any amount of a payable denom, and one coin of every
\* other denom
Coins ==
    [denom : PayableDenoms, amount : 0..MaxAmount]
    \cup [denom : Denoms \ PayableDenoms, amount : {MaxAmount}]
\* a deposit: any sequence of at most MaxCoins coins
Funds == UNION {[1..n -> Coins] : n \in 0..MaxCoins}
Infos == [sender : Addrs, funds : Funds]

\* Option<T>: None is the empty sequence, Some(v) the one-element sequence
None == <<>>
Some(v) == <<v>>

-----------------------------------------------------------------------------
(* Results and errors *)

NoError == [kind |-> "Ok"]
Ok(v) == [err |-> NoError, value |-> v]
Fail(e) == [err |-> e]
IsOk(r) == r.err.kind = "Ok"

\* Decimal::one(), with a Decimal held as a whole number of percent
DecimalOne == 100

\* Uint128 * Decimal rounded up
DecimalMul_rounds_up(u, d) == (u * d + DecimalOne - 1) \div DecimalOne

\* Uint128 * Decimal: floor(u * d)
DecimalMul(u, d) == (u * d) \div DecimalOne

Digit(d) == SubSeq("0123456789", d + 1, d + 1)

\* u128 / Uint128 Display: the decimal digits
RECURSIVE to_string(_)
to_string(n) == IF n < 10 THEN Digit(n) ELSE to_string(n \div 10) \o Digit(n % 10)

Attribute(key, value) == [key |-> key, value |-> value]

BankSend(to_address, amount, denom) ==
    [type |-> "bank_send", to_address |-> to_address,
     amount |-> <<[denom |-> denom, amount |-> amount]>>]

-----------------------------------------------------------------------------
(* util/provenance_util.rs and the queries *)

\* get_scope_by_id that gives the first owner of the scope for its value owner
get_scope_owned_by_first_owner(scope_id) ==
    IF scope_id \in DOMAIN scopes
    THEN Ok([scopes[scope_id] EXCEPT
                !.value_owner_address = scopes[scope_id].owners[1].address])
    ELSE Fail([kind |-> "Std", msg |-> "scope not found"])

get_scope_by_id(scope_id) ==
    IF scope_id \in DOMAIN scopes
    THEN Ok(scopes[scope_id])
    ELSE Fail([kind |-> "Std", msg |-> "scope not found"])

get_add_attribute_to_scope_msg(attribute, contract_name) ==
    [type |-> "add_attribute", address |-> attribute.scope_id,
     name |-> contract_name, value |-> attribute]

query_payable_attribute_by_scope_id(scope_id) ==
    LET attributes == IF scope_id \in DOMAIN scope_attributes
                      THEN scope_attributes[scope_id] ELSE <<>>
    IN IF Len(attributes) # 1
       THEN Fail([kind |-> "InvalidScopeAttribute", scope_id |-> scope_id,
                  attribute_amount |-> Len(attributes)])
       ELSE Ok(attributes[1])

\* get_scope_id_for_payable_uuid that falls back on any entry of the index
get_scope_id_of_any_entry(payable_uuid) ==
    IF payable_uuid \in DOMAIN payable_meta_v2
    THEN Ok(payable_meta_v2[payable_uuid].scope_id)
    ELSE IF DOMAIN payable_meta_v2 = {}
    THEN Fail([kind |-> "Std", msg |-> "PayableMetaV2 not found"])
    ELSE Ok(payable_meta_v2[CHOOSE u \in DOMAIN payable_meta_v2 : TRUE].scope_id)

get_scope_id_for_payable_uuid(payable_uuid) ==
    IF payable_uuid \in DOMAIN payable_meta_v2
    THEN Ok(payable_meta_v2[payable_uuid].scope_id)
    ELSE Fail([kind |-> "Std", msg |-> "PayableMetaV2 not found"])

\* query_payable_attribute_by_uuid that searches the scopes for the uuid
query_payable_attribute_by_scan(payable_uuid) ==
    LET holders == {s \in DOMAIN scope_attributes :
                       /\ Len(scope_attributes[s]) = 1
                       /\ scope_attributes[s][1].payable_uuid = payable_uuid}
    IN IF holders = {}
       THEN Fail([kind |-> "Std", msg |-> "PayableMetaV2 not found"])
       ELSE Ok(scope_attributes[CHOOSE s \in holders : TRUE][1])

query_payable_attribute_by_uuid(payable_uuid) ==
    LET scope_id == get_scope_id_for_payable_uuid(payable_uuid)
    IN IF IsOk(scope_id)
       THEN query_payable_attribute_by_scope_id(scope_id.value)
       ELSE scope_id

\* the add message with no look at what the scope already carries
get_add_initial_attribute_unchecked(attribute, contract_name) ==
    Ok(get_add_attribute_to_scope_msg(attribute, contract_name))

get_add_initial_attribute_to_scope_msg(attribute, contract_name) ==
    IF IsOk(query_payable_attribute_by_scope_id(attribute.scope_id))
    THEN Fail([kind |-> "DuplicateRegistration", scope_id |-> attribute.scope_id])
    ELSE Ok(get_add_attribute_to_scope_msg(attribute, contract_name))

\* the pair of upsert_attribute_to_scope with the add ahead of the delete
upsert_add_before_delete(attribute, contract_name) ==
    << get_add_attribute_to_scope_msg(attribute, contract_name),
       [type |-> "delete_attributes", address |-> attribute.scope_id,
        name |-> contract_name] >>

\* WriteAttributeMessages::to_vec of the pair upsert_attribute_to_scope builds
upsert_attribute_to_scope(attribute, contract_name) ==
    << [type |-> "delete_attributes", address |-> attribute.scope_id,
        name |-> contract_name],
       get_add_attribute_to_scope_msg(attribute, contract_name) >>

-----------------------------------------------------------------------------
(* core/msg.rs: structural validation of the execute messages *)

\* the fields a registration is refused for, with no look at the total
InvalidFieldsOfRegister_any_total(register) ==
    (IF register.payable_type = "" THEN <<"payable_type">> ELSE <<>>)
    \o (IF register.payable_uuid = "" THEN <<"payable_uuid">> ELSE <<>>)
    \o (IF register.scope_id = "" THEN <<"scope_id">> ELSE <<>>)
    \o (IF register.oracle_address = "" THEN <<"oracle_address">> ELSE <<>>)
    \o (IF register.payable_denom = "" THEN <<"payable_denom">> ELSE <<>>)

InvalidFieldsOfRegister(register) ==
    (IF register.payable_type = "" THEN <<"payable_type">> ELSE <<>>)
    \o (IF register.payable_uuid = "" THEN <<"payable_uuid">> ELSE <<>>)
    \o (IF register.scope_id = "" THEN <<"scope_id">> ELSE <<>>)
    \o (IF register.oracle_address = "" THEN <<"oracle_address">> ELSE <<>>)
    \o (IF register.payable_denom = "" THEN <<"payable_denom">> ELSE <<>>)
    \o (IF register.payable_total = 0 THEN <<"payable_total">> ELSE <<>>)

InvalidFieldsOfUuid(msg) ==
    IF msg.payable_uuid = "" THEN <<"payable_uuid">> ELSE <<>>

\* ExecuteMsg::validate on the fields the three arms collect
ExecuteMsgValidate(invalid_fields) ==
    IF invalid_fields # <<>>
    THEN Fail([kind |-> "InvalidFields", fields |-> invalid_fields])
    ELSE Ok(TRUE)

-----------------------------------------------------------------------------
(* execute/register_payable.rs *)

\* the attribute of a payable with nothing left to pay
to_scope_attribute_nothing_owed(register) ==
    [payable_type |-> register.payable_type,
     payable_uuid |-> register.payable_uuid,
     scope_id |-> register.scope_id,
     oracle_address |-> register.oracle_address,
     payable_denom |-> register.payable_denom,
     payable_total_owed |-> register.payable_total,
     payable_remaining_owed |-> 0,
     oracle_approved |-> FALSE]

to_scope_attribute(register) ==
    [payable_type |-> register.payable_type,
     payable_uuid |-> register.payable_uuid,
     scope_id |-> register.scope_id,
     oracle_address |-> register.oracle_address,
     payable_denom |-> register.payable_denom,
     payable_total_owed |-> register.payable_total,
     payable_remaining_owed |-> register.payable_total,
     oracle_approved |-> FALSE]

\* the denoms of the coins of a deposit that are not in the valid denom, in order
InvalidFunds(funds, valid_denom) ==
    LET bad == SelectSeq(funds, LAMBDA c : c.denom # valid_denom)
    IN [i \in 1..Len(bad) |-> bad[i].denom]

\* the denoms of the deposited coins that are not the onboarding denom
invalid_onboarding_funds(funds, state) == InvalidFunds(funds, state.onboarding_denom)

\* Iterator::find: the first coin of the deposit in the given denom
FindCoin(funds, denom) ==
    LET hit == SelectSeq(funds, LAMBDA c : c.denom = denom)
    IN IF hit = <<>> THEN None ELSE Some(hit[1])

\* the error with the two amounts in each other's place
insufficient_funds_error_swapped(onboarding_cost, amount_sent) ==
    [kind |-> "InsufficientFundsProvided",
     amount_needed |-> amount_sent,
     amount_provided |-> onboarding_cost]

insufficient_funds_error(onboarding_cost, amount_sent) ==
    [kind |-> "InsufficientFundsProvided",
     amount_needed |-> onboarding_cost,
     amount_provided |-> amount_sent]

\* a refund of the whole deposit
refund_of_whole_deposit(funds_sent, onboarding_cost) == funds_sent

\* the excess of the funds sent over the onboarding cost
refund_of(funds_sent, onboarding_cost) == funds_sent - onboarding_cost

validate_fee_params_get_messages(info, state) ==
    LET invalid_funds == invalid_onboarding_funds(info.funds, state)
        onboarding_cost == state.onboarding_cost
        found == FindCoin(info.funds, state.onboarding_denom)
        fee_collected_amount == DecimalMul(onboarding_cost, state.fee_percent)
    IN IF invalid_funds # <<>>
       THEN Fail([kind |-> "InvalidFundsProvided",
                  valid_denom |-> state.onboarding_denom,
                  invalid_denoms |-> invalid_funds])
       ELSE IF found # None /\ onboarding_cost > found[1].amount
       THEN Fail(insufficient_funds_error(onboarding_cost, found[1].amount))
       ELSE IF found = None /\ onboarding_cost > 0
       THEN Fail([kind |-> "NoFundsProvided", valid_denom |-> state.onboarding_denom])
       ELSE IF fee_collected_amount > onboarding_cost
       THEN Fail([kind |-> "Panic", msg |-> "attempt to subtract with overflow"])
       ELSE LET funds_sent == IF found # None THEN found[1].amount ELSE 0
                refund_amount == refund_of(funds_sent, onboarding_cost)
            IN Ok([fee_charge_message |->
                       IF fee_collected_amount > 0
                       THEN Some(BankSend(state.fee_collection_address,
                                          fee_collected_amount, state.onboarding_denom))
                       ELSE None,
                   fee_refund_message |->
                       IF refund_amount > 0
                       THEN Some(BankSend(info.sender, refund_amount,
                                          state.onboarding_denom))
                       ELSE None,
                   refund_amount |-> refund_amount,
                   oracle_fee_amount_kept |-> onboarding_cost - fee_collected_amount])

\* the number of owners, whoever the sender is
OwnerCount_of_anyone(scope, sender) == Len(scope.owners)

\* owners.into_iter().filter(|owner| owner.address == info.sender).count()
OwnerCount(scope, sender) ==
    Len(SelectSeq(scope.owners, LAMBDA owner : owner.address = sender))

register_payable_with_util(info, register) ==
    LET state == config_v2
        fee_charge_response == validate_fee_params_get_messages(info, state)
        scope == get_scope_by_id(register.scope_id)
        scope_attribute == to_scope_attribute(register)
        add_msg == get_add_initial_attribute_to_scope_msg(scope_attribute,
                                                          state.contract_name)
    IN IF ~IsOk(fee_charge_response) THEN fee_charge_response
       ELSE IF ~state.is_local /\ ~IsOk(scope) THEN scope
       ELSE IF ~state.is_local /\ OwnerCount(scope.value, info.sender) = 0
       THEN Fail([kind |-> "Unauthorized"])
       ELSE IF ~IsOk(add_msg) THEN add_msg
       ELSE LET fee == fee_charge_response.value
            IN [err |-> NoError,
                messages |-> fee.fee_charge_message \o fee.fee_refund_message
                             \o <<add_msg.value>>,
                attributes |->
                    (IF fee.fee_charge_message # None
                     THEN <<Attribute("payable_oracle_funds_kept",
                              to_string(fee.oracle_fee_amount_kept) \o "/"
                              \o state.onboarding_denom)>>
                     ELSE <<>>)
                    \o (IF fee.fee_refund_message # None
                        THEN <<Attribute("payable_refund_amount",
                                 to_string(fee.refund_amount) \o "/"
                                 \o state.onboarding_denom)>>
                        ELSE <<>>)
                    \o << Attribute("payable_registered", register.payable_uuid),
                          Attribute("payable_type", register.payable_type),
                          Attribute("payable_uuid", register.payable_uuid),
                          Attribute("payable_oracle_address", register.oracle_address),
                          Attribute("payable_total_owed",
                                    to_string(register.payable_total)),
                          Attribute("payable_denom", register.payable_denom),
                          Attribute("payable_related_scope_id", register.scope_id) >>,
                payable_meta |-> [payable_uuid |-> scope_attribute.payable_uuid,
                                  scope_id |-> scope_attribute.scope_id]]

-----------------------------------------------------------------------------
(* execute/oracle_approval.rs *)

\* approval_rejection without the check of the approved flag
approval_rejection_no_duplicate_check(info, attr) ==
    IF info.sender # attr.oracle_address
    THEN [kind |-> "Unauthorized"]
    ELSE NoError

\* approval_rejection without the check of the sender
approval_rejection_no_sender_check(info, attr) ==
    IF attr.oracle_approved
    THEN [kind |-> "DuplicateApproval", payable_uuid |-> attr.payable_uuid]
    ELSE NoError

\* approval_rejection with the sender checked before the approved flag
approval_rejection_sender_first(info, attr) ==
    IF info.sender # attr.oracle_address
    THEN [kind |-> "Unauthorized"]
    ELSE IF attr.oracle_approved
    THEN [kind |-> "DuplicateApproval", payable_uuid |-> attr.payable_uuid]
    ELSE NoError

\* the two checks made on the record an approval targets, in their order
approval_rejection(info, attr) ==
    IF attr.oracle_approved
    THEN [kind |-> "DuplicateApproval", payable_uuid |-> attr.payable_uuid]
    ELSE IF info.sender # attr.oracle_address
    THEN [kind |-> "Unauthorized"]
    ELSE NoError

\* oracle_withdraw_amount that hands out the whole onboarding cost
oracle_withdraw_whole_cost(state) == state.onboarding_cost

\* what is left of the onboarding cost after the fee is taken from it
oracle_withdraw_amount(state) ==
    state.onboarding_cost - DecimalMul(state.onboarding_cost, state.fee_percent)

\* approved_attribute that also writes the payable off
approved_attribute_paid_off(attr) ==
    [attr EXCEPT !.oracle_approved = TRUE, !.payable_remaining_owed = 0]

approved_attribute(attr) == [attr EXCEPT !.oracle_approved = TRUE]

oracle_approval_with_util(info, oracle_approval) ==
    LET found == query_payable_attribute_by_uuid(oracle_approval.payable_uuid)
        state == config_v2
    IN IF info.funds # <<>> THEN Fail([kind |-> "FundsPresent"])
       ELSE IF ~IsOk(found)
       THEN Fail([kind |-> "PayableNotFound",
                  payable_uuid |-> oracle_approval.payable_uuid])
       ELSE IF approval_rejection(info, found.value) # NoError
       THEN Fail(approval_rejection(info, found.value))
       ELSE IF oracle_withdraw_amount(state) < 0
       THEN Fail([kind |-> "Panic", msg |-> "attempt to subtract with overflow"])
       ELSE LET scope_attribute == approved_attribute(found.value)
            IN [err |-> NoError,
                messages |->
                    (IF oracle_withdraw_amount(state) > 0
                     THEN <<BankSend(scope_attribute.oracle_address,
                                     oracle_withdraw_amount(state),
                                     state.onboarding_denom)>>
                     ELSE <<>>)
                    \o upsert_attribute_to_scope(scope_attribute, state.contract_name),
                attributes |->
                    << Attribute("payable_oracle_approved", scope_attribute.payable_uuid),
                       Attribute("payable_type", scope_attribute.payable_type),
                       Attribute("payable_uuid", scope_attribute.payable_uuid),
                       Attribute("payable_oracle_address",
                                 scope_attribute.oracle_address) >>]

-----------------------------------------------------------------------------
(* execute/make_payment.rs *)

\* SumAmounts that counts the first coin only
SumAmounts_first_coin(funds) == IF funds = <<>> THEN 0 ELSE funds[1].amount

\* fold(0u128, |acc, coin| acc + coin.amount.u128())
RECURSIVE SumAmounts(_)
SumAmounts(funds) ==
    IF funds = <<>> THEN 0 ELSE funds[1].amount + SumAmounts(Tail(funds))

\* ready_for_payment that ignores the approved flag
ready_for_payment_always(attr) == TRUE

ready_for_payment(attr) == attr.oracle_approved

\* invalid_payment_funds that looks at the first coin only
invalid_payment_funds_first_coin(funds, attr) ==
    InvalidFunds(SubSeq(funds, 1, 1), attr.payable_denom)

\* the denoms of the deposited coins that are not the payable's denom
invalid_payment_funds(funds, attr) == InvalidFunds(funds, attr.payable_denom)

\* no_funds_provided that lets an empty payment through
no_funds_provided_never(payment_amount) == FALSE

no_funds_provided(payment_amount) == payment_amount = 0

payment_too_large(payment_amount, attr) ==
    payment_amount > attr.payable_remaining_owed

\* payment_too_large_error that reports the original total
payment_too_large_error_reports_total(payment_amount, attr) ==
    [kind |-> "PaymentTooLarge",
     total_owed |-> attr.payable_total_owed,
     amount_provided |-> payment_amount]

payment_too_large_error(payment_amount, attr) ==
    [kind |-> "PaymentTooLarge",
     total_owed |-> attr.payable_remaining_owed,
     amount_provided |-> payment_amount]

\* payment_message that sends what remains owed
payment_message_sends_remaining(payee, payment_amount, attr) ==
    BankSend(payee, attr.payable_remaining_owed, attr.payable_denom)

payment_message(payee, payment_amount, attr) ==
    BankSend(payee, payment_amount, attr.payable_denom)

\* the payment amount added to the tracked total
attribute_after_payment_adds(attr, payment_amount) ==
    [attr EXCEPT !.payable_remaining_owed = attr.payable_remaining_owed + payment_amount]

\* subtract the payment amount from the tracked total
attribute_after_payment(attr, payment_amount) ==
    [attr EXCEPT !.payable_remaining_owed = attr.payable_remaining_owed - payment_amount]

make_payment_with_util(info, make_payment) ==
    LET found == query_payable_attribute_by_uuid(make_payment.payable_uuid)
    IN IF ~IsOk(found)
       THEN Fail([kind |-> "PayableNotFound",
                  payable_uuid |-> make_payment.payable_uuid])
       ELSE IF ~ready_for_payment(found.value)
       THEN Fail([kind |-> "NotReadyForPayment",
                  payable_uuid |-> found.value.payable_uuid,
                  not_ready_reason |-> "Payable missing oracle approval"])
       ELSE
       LET attr == found.value
           invalid_funds == invalid_payment_funds(info.funds, attr)
           payment_amount == SumAmounts(info.funds)
           scope == get_scope_by_id(attr.scope_id)
       IN IF invalid_funds # <<>>
          THEN Fail([kind |-> "InvalidFundsProvided",
                     valid_denom |-> attr.payable_denom,
                     invalid_denoms |-> invalid_funds])
          ELSE IF no_funds_provided(payment_amount)
          THEN Fail([kind |-> "NoFundsProvided", valid_denom |-> attr.payable_denom])
          ELSE IF payment_too_large(payment_amount, attr)
          THEN Fail(payment_too_large_error(payment_amount, attr))
          ELSE IF ~IsOk(scope) THEN scope
          ELSE
          LET payee == scope.value.value_owner_address
              scope_attribute == attribute_after_payment(attr, payment_amount)
          IN [err |-> NoError,
              messages |->
                  <<payment_message(payee, payment_amount, attr)>>
                  \o upsert_attribute_to_scope(scope_attribute,
                                               config_v2.contract_name),
              attributes |->
                  << Attribute("payable_payment_made", scope_attribute.payable_uuid),
                     Attribute("payable_type", scope_attribute.payable_type),
                     Attribute("payable_uuid", scope_attribute.payable_uuid),
                     Attribute("payable_oracle_address", scope_attribute.oracle_address),
                     Attribute("payable_amount_paid", to_string(payment_amount)),
                     Attribute("payable_total_remaining",
                               to_string(scope_attribute.payable_remaining_owed)),
                     Attribute("payable_payer", info.sender),
                     Attribute("payable_payee", payee) >>]

-----------------------------------------------------------------------------
(* migrate/migrate_contract.rs, core/msg.rs (MigrateMsg) and the version info *)

CONTRACT_NAME == "payable-asset-smart-contract"
CONTRACT_VERSION == "1.0.0"

IsDigit(c) == \E d \in 0..9 : Digit(d) = c
DigitValue(c) == CHOOSE d \in 0..9 : Digit(d) = c

\* str::parse::<u128>: None unless the string is a non-empty run of digits
RECURSIVE ParseDigits(_, _)
ParseDigits(str, acc) ==
    IF str = "" THEN Some(acc)
    ELSE IF ~IsDigit(SubSeq(str, 1, 1)) THEN None
    ELSE ParseDigits(SubSeq(str, 2, Len(str)), 10 * acc + DigitValue(SubSeq(str, 1, 1)))

parse_u128(str) == IF str = "" THEN None ELSE ParseDigits(str, 0)

\* the text before the first "." of a string, and the text after it
RECURSIVE UpToDot(_)
UpToDot(str) ==
    IF str = "" \/ SubSeq(str, 1, 1) = "." THEN ""
    ELSE SubSeq(str, 1, 1) \o UpToDot(SubSeq(str, 2, Len(str)))

AfterDot(str) == SubSeq(str, Len(UpToDot(str)) + 2, Len(str))

\* semver::Version::parse restricted to MAJOR.MINOR.PATCH
parse_sem_ver(str) ==
    LET major == parse_u128(UpToDot(str))
        rest == AfterDot(str)
        minor == parse_u128(UpToDot(rest))
        patch == parse_u128(AfterDot(rest))
    IN IF major = None \/ minor = None \/ patch = None
       THEN Fail([kind |-> "SemVer", msg |-> str])
       ELSE Ok(<<major[1], minor[1], patch[1]>>)

\* VersionGreater that looks at the major version only
VersionGreater_major_only(a, b) == a[1] > b[1]

\* Ord of semver::Version: lexicographic on (major, minor, patch)
VersionGreater(a, b) ==
    \/ a[1] > b[1]
    \/ a[1] = b[1] /\ a[2] > b[2]
    \/ a[1] = b[1] /\ a[2] = b[2] /\ a[3] > b[3]

\* the version gate with no look at the stored identifier
check_version_only ==
    LET stored_version == parse_sem_ver(version_info.version)
    IN IF ~IsOk(stored_version) THEN stored_version
       ELSE IF VersionGreater(stored_version.value,
                              parse_sem_ver(CONTRACT_VERSION).value)
       THEN Fail([kind |-> "InvalidContractVersion",
                  current_version |-> version_info.version,
                  migration_version |-> CONTRACT_VERSION])
       ELSE Ok(TRUE)

check_valid_migration_versioning ==
    LET stored_version_info == version_info
        contract_version == parse_sem_ver(CONTRACT_VERSION)
        stored_version == parse_sem_ver(stored_version_info.version)
    IN IF CONTRACT_NAME # stored_version_info.contract
       THEN Fail([kind |-> "InvalidContractName",
                  current_contract |-> stored_version_info.contract,
                  migration_contract |-> CONTRACT_NAME])
       ELSE IF ~IsOk(contract_version) THEN contract_version
       ELSE IF ~IsOk(stored_version) THEN stored_version
       ELSE IF VersionGreater(stored_version.value, contract_version.value)
       THEN Fail([kind |-> "InvalidContractVersion",
                  current_version |-> stored_version_info.version,
                  migration_version |-> CONTRACT_VERSION])
       ELSE Ok(TRUE)

\* migrate_version_info: the version info of the running binary
migrate_version_info == [contract |-> CONTRACT_NAME, version |-> CONTRACT_VERSION]

\* MigrateMsg::validate with no look at the fee ratio
MigrateMsgValidate_any_fee(msg) ==
    LET invalid_fields ==
            (IF msg.onboarding_cost # None /\ parse_u128(msg.onboarding_cost[1]) = None
             THEN <<"onboarding_cost">> ELSE <<>>)
            \o (IF msg.onboarding_denom # None /\ msg.onboarding_denom[1] = ""
                THEN <<"onboarding_denom">> ELSE <<>>)
            \o (IF msg.fee_collection_address # None /\ msg.fee_collection_address[1] = ""
                THEN <<"fee_collection_address">> ELSE <<>>)
            \o (IF msg.oracle_address # None /\ msg.oracle_address[1] = ""
                THEN <<"oracle_address">> ELSE <<>>)
    IN IF invalid_fields # <<>>
       THEN Fail([kind |-> "InvalidFields", fields |-> invalid_fields])
       ELSE Ok(TRUE)

MigrateMsgValidate(msg) ==
    LET invalid_fields ==
            (IF msg.onboarding_cost # None /\ parse_u128(msg.onboarding_cost[1]) = None
             THEN <<"onboarding_cost">> ELSE <<>>)
            \o (IF msg.onboarding_denom # None /\ msg.onboarding_denom[1] = ""
                THEN <<"onboarding_denom">> ELSE <<>>)
            \o (IF msg.fee_collection_address # None /\ msg.fee_collection_address[1] = ""
                THEN <<"fee_collection_address">> ELSE <<>>)
            \o (IF msg.fee_percent # None /\ msg.fee_percent[1] > DecimalOne
                THEN <<"fee_percent">> ELSE <<>>)
            \o (IF msg.oracle_address # None /\ msg.oracle_address[1] = ""
                THEN <<"oracle_address">> ELSE <<>>)
    IN IF invalid_fields # <<>>
       THEN Fail([kind |-> "InvalidFields", fields |-> invalid_fields])
       ELSE Ok(TRUE)

\* to_migrate_contract_v2 that takes a missing fee ratio for a ratio of 0
to_migrate_contract_v2_default_fee(msg) ==
    [onboarding_cost |-> IF msg.onboarding_cost # None
                         THEN parse_u128(msg.onboarding_cost[1]) ELSE None,
     onboarding_denom |-> msg.onboarding_denom,
     fee_collection_address |-> msg.fee_collection_address,
     fee_percent |-> IF msg.fee_percent # None THEN msg.fee_percent ELSE Some(0)]

to_migrate_contract_v2(msg) ==
    [onboarding_cost |-> IF msg.onboarding_cost # None
                         THEN parse_u128(msg.onboarding_cost[1]) ELSE None,
     onboarding_denom |-> msg.onboarding_denom,
     fee_collection_address |-> msg.fee_collection_address,
     fee_percent |-> msg.fee_percent]

\* has_state_changes with no look at the fee ratio
has_state_changes_but_fee(migrate) ==
    \/ migrate.onboarding_cost # None
    \/ migrate.onboarding_denom # None
    \/ migrate.fee_collection_address # None

has_state_changes(migrate) ==
    \/ migrate.onboarding_cost # None
    \/ migrate.onboarding_denom # None
    \/ migrate.fee_collection_address # None
    \/ migrate.fee_percent # None

\* "{}{}" of MIGRATION_STATE_CHANGE_PREFIX and the field name
state_change_attribute(field_name, value) ==
    Attribute("payable_migration_state_field_" \o field_name, value)

\* Decimal Display of a whole number of percent: "0.5", "0.75", "1"
decimal_to_string(d) ==
    LET whole == d \div DecimalOne
        frac == d % DecimalOne
    IN IF frac = 0 THEN to_string(whole)
       ELSE IF frac % 10 = 0 THEN to_string(whole) \o "." \o to_string(frac \div 10)
       ELSE IF frac < 10 THEN to_string(whole) \o ".0" \o to_string(frac)
       ELSE to_string(whole) \o "." \o to_string(frac)

migrate_contract(migrate) ==
    LET gate == check_valid_migration_versioning
        state == config_v2
        new_state ==
            [state EXCEPT
               !.onboarding_cost = IF migrate.onboarding_cost # None
                                   THEN migrate.onboarding_cost[1] ELSE @,
               !.onboarding_denom = IF migrate.onboarding_denom # None
                                    THEN migrate.onboarding_denom[1] ELSE @,
               !.fee_collection_address = IF migrate.fee_collection_address # None
                                          THEN migrate.fee_collection_address[1] ELSE @,
               !.fee_percent = IF migrate.fee_percent # None
                               THEN migrate.fee_percent[1] ELSE @]
        new_version_info == migrate_version_info
    IN IF ~IsOk(gate) THEN gate
       ELSE [err |-> NoError,
             messages |-> <<>>,
             attributes |->
                 (IF migrate.onboarding_cost # None
                  THEN <<state_change_attribute("onboarding_cost",
                                                to_string(migrate.onboarding_cost[1]))>>
                  ELSE <<>>)
                 \o (IF migrate.onboarding_denom # None
                     THEN <<state_change_attribute("onboarding_denom",
                                                   migrate.onboarding_denom[1])>>
                     ELSE <<>>)
                 \o (IF migrate.fee_collection_address # None
                     THEN <<state_change_attribute("fee_collection_address",
                                                   migrate.fee_collection_address[1])>>
                     ELSE <<>>)
                 \o (IF migrate.fee_percent # None
                     THEN <<state_change_attribute("fee_percent",
                                                   decimal_to_string(migrate.fee_percent[1]))>>
                     ELSE <<>>)
                 \o << Attribute("payable_migration_contract_name",
                                 new_version_info.contract),
                       Attribute("payable_migration_contract_version",
                                 new_version_info.version) >>,
             config |-> IF has_state_changes(migrate) THEN new_state ELSE state,
             version |-> new_version_info]

-----------------------------------------------------------------------------
(* The host ledger: it applies the messages of a successful call, in order *)

ApplyMsg(registry, msg) ==
    IF msg.type = "add_attribute"
    THEN [registry EXCEPT ![msg.address] = Append(@, msg.value)]
    ELSE IF msg.type = "delete_attributes"
    THEN [registry EXCEPT ![msg.address] = <<>>]
    ELSE registry

RECURSIVE ApplyMsgs(_, _)
ApplyMsgs(registry, messages) ==
    IF messages = <<>> THEN registry
    ELSE ApplyMsgs(ApplyMsg(registry, messages[1]), Tail(messages))

\* Bucket::save under the key payable_uuid
BucketSave(bucket, meta) ==
    [u \in DOMAIN bucket \cup {meta.payable_uuid} |->
        IF u = meta.payable_uuid THEN meta ELSE bucket[u]]

\* the amount a list of coins holds in total
RECURSIVE DepositTotal(_)
DepositTotal(coins) ==
    IF coins = <<>> THEN 0
    ELSE coins[Len(coins)].amount + DepositTotal(SubSeq(coins, 1, Len(coins) - 1))

\* the bank transfers of a response, and the amount they move in total
BankSends(messages) == SelectSeq(messages, LAMBDA m : m.type = "bank_send")

RECURSIVE SentTotal(_)
SentTotal(sends) ==
    IF sends = <<>> THEN 0 ELSE DepositTotal(sends[1].amount) + SentTotal(Tail(sends))

\* the coins a list of bank transfers moves, in order
RECURSIVE SentCoins(_)
SentCoins(sends) ==
    IF sends = <<>> THEN <<>> ELSE sends[1].amount \o SentCoins(Tail(sends))

\* oracle_fee_amount_kept of a registration, as a coin of the onboarding denom
OracleFeeKept(info, state) ==
    [denom |-> state.onboarding_denom,
     amount |-> validate_fee_params_get_messages(info, state).value.oracle_fee_amount_kept]

-----------------------------------------------------------------------------
(* The messages the calls carry *)

RegisterMsgs ==
    [payable_type : PayableTypes, payable_uuid : PayableUuids, scope_id : ScopeIds,
     oracle_address : OracleAddrs, payable_denom : PayableDenoms,
     payable_total : {0, MaxTotal}]

UuidMsgs == [payable_uuid : PayableUuids]

MigrateMsgs ==
    [onboarding_cost : {None, Some("word")},
     onboarding_denom : {None},
     fee_collection_address : {None},
     fee_percent : {None, Some(100), Some(150)},
     oracle_address : {None}]

-----------------------------------------------------------------------------
(* instantiate/init_contract.rs *)

InitMsgs ==
    [payable_type : PayableTypes,
     contract_name : {"payables.asset", ""},
     onboarding_cost : {"2", "word"},
     onboarding_denom : {"nhash"},
     fee_collection_address : {"feebucket", ""},
     fee_percent : {50, DecimalOne, 150},
     oracle_address : OracleAddrs,
     is_local : {None, Some(TRUE)}]

InitMsgValidate(msg) ==
    LET invalid_fields ==
            (IF msg.contract_name = "" THEN <<"contract_name">> ELSE <<>>)
            \o (IF parse_u128(msg.onboarding_cost) = None
                THEN <<"onboarding_cost">> ELSE <<>>)
            \o (IF msg.onboarding_denom = "" THEN <<"onboarding_denom">> ELSE <<>>)
            \o (IF msg.fee_collection_address = ""
                THEN <<"fee_collection_address">> ELSE <<>>)
            \o (IF msg.fee_percent > DecimalOne THEN <<"fee_percent">> ELSE <<>>)
    IN IF invalid_fields # <<>>
       THEN Fail([kind |-> "InvalidFields", fields |-> invalid_fields])
       ELSE Ok(TRUE)

\* Api::addr_validate: no address is empty
addr_validate(human) ==
    IF human = "" THEN Fail([kind |-> "Std", msg |-> "human address too short"])
    ELSE Ok(human)

\* bind_name that binds the identifier of the binary
bind_name_of_binary(name) ==
    Ok([type |-> "bind_name", name |-> CONTRACT_NAME, restrict |-> TRUE])

\* provwasm_std::bind_name: no name is empty
bind_name(name) ==
    IF name = "" THEN Fail([kind |-> "Std", msg |-> "name must not be empty"])
    ELSE Ok([type |-> "bind_name", name |-> name, restrict |-> TRUE])

init_contract(info, msg) ==
    IF info.funds # <<>>
    THEN Fail([kind |-> "Std",
               msg |-> "purchase funds are not allowed to be sent during init"])
    ELSE IF msg.fee_percent > DecimalOne
    THEN Fail([kind |-> "Std", msg |-> "fee must be less than 100%"])
    ELSE IF parse_u128(msg.onboarding_cost) = None
    THEN Fail([kind |-> "Panic", msg |-> "called Result::unwrap() on an Err value"])
    ELSE IF ~IsOk(addr_validate(msg.fee_collection_address))
    THEN addr_validate(msg.fee_collection_address)
    ELSE IF ~IsOk(addr_validate(msg.oracle_address))
    THEN addr_validate(msg.oracle_address)
    ELSE IF ~IsOk(bind_name(msg.contract_name))
    THEN bind_name(msg.contract_name)
    ELSE [err |-> NoError,
          messages |-> <<bind_name(msg.contract_name).value>>,
          attributes |-> <<Attribute("action", "init")>>,
          config |-> [payable_type |-> msg.payable_type,
                      contract_name |-> msg.contract_name,
                      onboarding_cost |-> parse_u128(msg.onboarding_cost)[1],
                      onboarding_denom |-> msg.onboarding_denom,
                      fee_collection_address |-> msg.fee_collection_address,
                      fee_percent |-> msg.fee_percent,
                      oracle_address |-> msg.oracle_address,
                      is_local |-> IF msg.is_local = None THEN FALSE
                                   ELSE msg.is_local[1]],
          version |-> migrate_version_info]

-----------------------------------------------------------------------------
(* The state after instantiation *)

InitConfig ==
    [contract_name |-> "payables.asset",
     onboarding_cost |-> 2,
     onboarding_denom |-> "nhash",
     fee_collection_address |-> "feebucket",
     fee_percent |-> 50,
     is_local |-> FALSE]

\* the deposit of a registration: nothing, or one coin of about the onboarding cost
RegisterFunds ==
    {<<>>} \cup
    {<<[denom |-> denom, amount |-> amount]>> :
        denom \in Denoms,
        amount \in (InitConfig.onboarding_cost - 1)..(InitConfig.onboarding_cost + 1)}
RegisterInfos == [sender : Addrs, funds : RegisterFunds]

\* the deposit of an approval: nothing, or one coin
ApprovalFunds == {<<>>} \cup {<<coin>> : coin \in Coins}
ApprovalInfos == [sender : Addrs, funds : ApprovalFunds]

\* get_duped_scope: one owner, who is also the value owner
InitScope(scope_id, owner_address) ==
    [scope_id |-> scope_id,
     owners |-> <<[address |-> owner_address, role |-> "Owner"]>>,
     value_owner_address |-> owner_address]

\* per scope: the successful Register and Approve calls on its payable, the
\* oracle payouts emitted, the amounts deposited by the successful payments,
\* the amounts those payments transferred and the addresses they were
\* transferred to
NoHistory ==
    [registered |-> 0, approved |-> 0, payouts |-> 0,
     paid |-> 0, transferred |-> 0, payees |-> {}]

\* the history of a specification that follows the onboarding funds: also the
\* coins the registrations left with the contract for the oracle and the
\* coins the approvals sent out
NoFundsHistory ==
    [registered |-> 0, approved |-> 0, payouts |-> 0,
     paid |-> 0, transferred |-> 0, payees |-> {},
     fee_kept |-> <<>>, oracle_paid |-> <<>>]

FollowsFunds(scope_id) == "fee_kept" \in DOMAIN hist[scope_id]

Init ==
    /\ config_v2 = InitConfig
    /\ version_info = migrate_version_info
    /\ config = None
    /\ payable_meta = <<>>
    /\ payable_meta_v2 = <<>>
    /\ scope_attributes = [s \in ScopeIds |-> <<>>]
    /\ scopes = [s \in ScopeIds |-> InitScope(s, "admin")]
    /\ hist = [s \in ScopeIds |-> NoHistory]
    /\ last = "instantiate"

-----------------------------------------------------------------------------
(* The calls.  A call that returns an error changes nothing: the host drops   *)
(* its writes and its messages.                                               *)

\* a failed call that loses the index
Rejected_drops_index ==
    /\ payable_meta_v2' = <<>>
    /\ UNCHANGED <<config, payable_meta, config_v2, version_info, scope_attributes,
                   scopes, hist, last>>

Rejected == UNCHANGED vars

RegisterPayable(info, register) ==
    LET valid == ExecuteMsgValidate(InvalidFieldsOfRegister(register))
        response == IF IsOk(valid) THEN register_payable_with_util(info, register)
                    ELSE valid
    IN IF IsOk(response)
       THEN /\ payable_meta_v2' = BucketSave(payable_meta_v2, response.payable_meta)
            /\ scope_attributes' = ApplyMsgs(scope_attributes, response.messages)
            /\ hist' = IF FollowsFunds(register.scope_id)
                       THEN [hist EXCEPT
                               ![register.scope_id].registered = @ + 1,
                               ![register.scope_id].fee_kept =
                                   Append(@, OracleFeeKept(info, config_v2))]
                       ELSE [hist EXCEPT ![register.scope_id].registered = @ + 1]
            /\ last' = "register"
            /\ UNCHANGED <<config, payable_meta, config_v2, version_info, scopes>>
       ELSE Rejected

OracleApproval(info, oracle_approval) ==
    LET valid == ExecuteMsgValidate(InvalidFieldsOfUuid(oracle_approval))
        response == IF IsOk(valid) THEN oracle_approval_with_util(info, oracle_approval)
                    ELSE valid
        target == get_scope_id_for_payable_uuid(oracle_approval.payable_uuid)
    IN IF IsOk(response)
       THEN /\ scope_attributes' = ApplyMsgs(scope_attributes, response.messages)
            /\ hist' = IF FollowsFunds(target.value)
                       THEN [hist EXCEPT
                               ![target.value].approved = @ + 1,
                               ![target.value].payouts =
                                   @ + Len(BankSends(response.messages)),
                               ![target.value].oracle_paid =
                                   @ \o SentCoins(BankSends(response.messages))]
                       ELSE [hist EXCEPT
                               ![target.value].approved = @ + 1,
                               ![target.value].payouts =
                                   @ + Len(BankSends(response.messages))]
            /\ last' = "approve"
            /\ UNCHANGED <<config, payable_meta, config_v2, version_info,
                           payable_meta_v2, scopes>>
       ELSE Rejected

MakePayment(info, make_payment) ==
    LET valid == ExecuteMsgValidate(InvalidFieldsOfUuid(make_payment))
        response == IF IsOk(valid) THEN make_payment_with_util(info, make_payment)
                    ELSE valid
        target == get_scope_id_for_payable_uuid(make_payment.payable_uuid)
    IN IF IsOk(response)
       THEN /\ scope_attributes' = ApplyMsgs(scope_attributes, response.messages)
            /\ hist' = [hist EXCEPT
                          ![target.value].paid = @ + DepositTotal(info.funds),
                          ![target.value].transferred =
                              @ + SentTotal(BankSends(response.messages)),
                          ![target.value].payees =
                              @ \cup {BankSends(response.messages)[i].to_address :
                                         i \in 1..Len(BankSends(response.messages))}]
            /\ last' = "pay"
            /\ UNCHANGED <<config, payable_meta, config_v2, version_info,
                           payable_meta_v2, scopes>>
       ELSE Rejected

Migrate(msg) ==
    LET valid == MigrateMsgValidate(msg)
        response == IF IsOk(valid) THEN migrate_contract(to_migrate_contract_v2(msg))
                    ELSE valid
    IN IF IsOk(response)
       THEN /\ config_v2' = response.config
            /\ version_info' = response.version
            /\ last' = "migrate"
            /\ UNCHANGED <<config, payable_meta, payable_meta_v2, scope_attributes,
                           scopes, hist>>
       ELSE Rejected

Next ==
    \/ \E info \in RegisterInfos, register \in RegisterMsgs :
          RegisterPayable(info, register)
    \/ \E info \in ApprovalInfos, oracle_approval \in UuidMsgs :
          OracleApproval(info, oracle_approval)
    \/ \E info \in Infos, make_payment \in UuidMsgs : MakePayment(info, make_payment)
    \/ \E msg \in MigrateMsgs : Migrate(msg)

Spec == Init /\ [][Next]_vars

-----------------------------------------------------------------------------
(* Registration, approval and migration from any configuration an           *)
(* instantiation can store: every onboarding cost up to MaxCost, fee ratios  *)
(* from 0 to 1, with and without the local flag.                             *)

FeePercents == {0, 25, 50, 75, DecimalOne}
AnyConfigs ==
    {[InitConfig EXCEPT !.onboarding_cost = onboarding_cost,
                        !.fee_percent = fee_percent,
                        !.is_local = is_local] :
        onboarding_cost \in 0..MaxCost, fee_percent \in FeePercents,
        is_local \in BOOLEAN}

\* the deposit of a registration: nothing, one coin of the onboarding denom of
\* up to one more than MaxCost, or one coin of another denom
FeeFunds ==
    {<<>>} \cup
    {<<[denom |-> InitConfig.onboarding_denom, amount |-> amount]>> :
        amount \in 0..(MaxCost + 1)}
    \cup {<<[denom |-> denom, amount |-> MaxCost]>> :
              denom \in Denoms \ {InitConfig.onboarding_denom}}
FeeInfos == [sender : Addrs, funds : FeeFunds]

AnyConfigInit ==
    /\ config_v2 \in AnyConfigs
    /\ version_info = migrate_version_info
    /\ config = None
    /\ payable_meta = <<>>
    /\ payable_meta_v2 = <<>>
    /\ scope_attributes = [s \in ScopeIds |-> <<>>]
    /\ scopes = [s \in ScopeIds |-> InitScope(s, "admin")]
    /\ hist = [s \in ScopeIds |-> NoHistory]
    /\ last = "instantiate"

AnyConfigNext ==
    \/ \E info \in FeeInfos, register \in RegisterMsgs :
          RegisterPayable(info, register)
    \/ \E info \in ApprovalInfos, oracle_approval \in UuidMsgs :
          OracleApproval(info, oracle_approval)
    \/ \E msg \in MigrateMsgs : Migrate(msg)

AnyConfigSpec == AnyConfigInit /\ [][AnyConfigNext]_vars

-----------------------------------------------------------------------------
(* Migration of a contract whose version info was stored by any binary: an   *)
(* older one, the running one, a newer one, or another contract.             *)

StoredVersionInfos ==
    [contract : {CONTRACT_NAME, "Wrong name"},
     version : {"0.9.9", CONTRACT_VERSION, "1.0.1", "99.9.9"}]

UpgradeMsgs ==
    [onboarding_cost : {None, Some("1")},
     onboarding_denom : {None, Some("usd")},
     fee_collection_address : {None, Some("admin")},
     fee_percent : {None, Some(25), Some(150)},
     oracle_address : {None}]

MigrationInit ==
    /\ config_v2 = InitConfig
    /\ version_info \in StoredVersionInfos
    /\ config = None
    /\ payable_meta = <<>>
    /\ payable_meta_v2 = <<>>
    /\ scope_attributes = [s \in ScopeIds |-> <<>>]
    /\ scopes = [s \in ScopeIds |-> InitScope(s, "admin")]
    /\ hist = [s \in ScopeIds |-> NoHistory]
    /\ last = "instantiate"

MigrationNext ==
    \/ \E info \in RegisterInfos, register \in RegisterMsgs :
          RegisterPayable(info, register)
    \/ \E msg \in UpgradeMsgs : Migrate(msg)

MigrationSpec == MigrationInit /\ [][MigrationNext]_vars

-----------------------------------------------------------------------------
(* Registration and approval with migrations of the configuration between    *)
(* them: a migration may change the onboarding cost, the onboarding denom,   *)
(* the fee collection address and the fee ratio.                             *)

UpgradeNext ==
    \/ \E info \in RegisterInfos, register \in RegisterMsgs :
          RegisterPayable(info, register)
    \/ \E info \in ApprovalInfos, oracle_approval \in UuidMsgs :
          OracleApproval(info, oracle_approval)
    \/ \E msg \in UpgradeMsgs : Migrate(msg)

UpgradeInit ==
    /\ config_v2 = InitConfig
    /\ version_info = migrate_version_info
    /\ config = None
    /\ payable_meta = <<>>
    /\ payable_meta_v2 = <<>>
    /\ scope_attributes = [s \in ScopeIds |-> <<>>]
    /\ scopes = [s \in ScopeIds |-> InitScope(s, "admin")]
    /\ hist = [s \in ScopeIds |-> NoFundsHistory]
    /\ last = "instantiate"

UpgradeSpec == UpgradeInit /\ [][UpgradeNext]_vars

-----------------------------------------------------------------------------
(* The calls while the host's scope registry moves: the value owner of a     *)
(* scope is changed by a transaction of the host that is no call of the      *)
(* contract.                                                                 *)

WriteScopeValueOwner(scope_id, address) ==
    /\ scopes[scope_id].value_owner_address # address
    /\ scopes' = [scopes EXCEPT ![scope_id].value_owner_address = address]
    /\ last' = "write_scope"
    /\ UNCHANGED <<config, payable_meta, config_v2, version_info, payable_meta_v2,
                   scope_attributes, hist>>

RegistryNext ==
    \/ \E info \in RegisterInfos, register \in RegisterMsgs :
          RegisterPayable(info, register)
    \/ \E info \in ApprovalInfos, oracle_approval \in UuidMsgs :
          OracleApproval(info, oracle_approval)
    \/ \E info \in ApprovalInfos, make_payment \in UuidMsgs :
          MakePayment(info, make_payment)
    \/ \E scope_id \in ScopeIds, address \in Addrs :
          WriteScopeValueOwner(scope_id, address)

RegistrySpec == Init /\ [][RegistryNext]_vars

-----------------------------------------------------------------------------
(* The contract after any instantiation that succeeds.                       *)

\* StateV2 of a State: the fields the two layouts share
to_state_v2(state_v1) ==
    [contract_name |-> state_v1.contract_name,
     onboarding_cost |-> state_v1.onboarding_cost,
     onboarding_denom |-> state_v1.onboarding_denom,
     fee_collection_address |-> state_v1.fee_collection_address,
     fee_percent |-> state_v1.fee_percent,
     is_local |-> state_v1.is_local]

InstantiatedInit ==
    \E info \in ApprovalInfos, msg \in InitMsgs :
        LET response == init_contract(info, msg)
        IN /\ IsOk(response)
           /\ config_v2 = to_state_v2(response.config)
           /\ version_info = response.version
           /\ config = None
           /\ payable_meta = <<>>
           /\ payable_meta_v2 = <<>>
           /\ scope_attributes = [s \in ScopeIds |-> <<>>]
           /\ scopes = [s \in ScopeIds |-> InitScope(s, "admin")]
           /\ hist = [s \in ScopeIds |-> NoHistory]
           /\ last = "instantiate"

InstantiatedNext ==
    \/ \E info \in RegisterInfos, register \in RegisterMsgs :
          RegisterPayable(info, register)
    \/ \E info \in ApprovalInfos, oracle_approval \in UuidMsgs :
          OracleApproval(info, oracle_approval)

InstantiatedSpec == InstantiatedInit /\ [][InstantiatedNext]_vars

-----------------------------------------------------------------------------
(* The one-way migration of a contract of the earlier generation, which      *)
(* holds a State singleton and one flat PayableMeta per payable uuid, to the *)
(* StateV2 singleton, the uuid -> scope id index and the scope attributes.   *)

\* the configurations of the earlier generation
States ==
    [payable_type : PayableTypes,
     contract_name : {InitConfig.contract_name},
     onboarding_cost : {InitConfig.onboarding_cost},
     onboarding_denom : {InitConfig.onboarding_denom},
     fee_collection_address : {InitConfig.fee_collection_address},
     fee_percent : {50, DecimalOne},
     oracle_address : OracleAddrs,
     is_local : BOOLEAN]

\* the flat records register_payable, oracle_approval and make_payment of the
\* earlier generation leave: nothing is paid down before the approval
PayableMetas ==
    {meta \in [payable_uuid : PayableUuids, scope_id : ScopeIds,
               payable_denom : PayableDenoms, payable_total_owed : {MaxTotal},
               payable_remaining_owed : 0..MaxTotal, oracle_approved : BOOLEAN] :
        ~meta.oracle_approved => meta.payable_remaining_owed = meta.payable_total_owed}

\* the buckets of flat records, each saved under its payable_uuid
PayableMetaBuckets ==
    UNION {{bucket \in [keys -> PayableMetas] :
               \A u \in keys : bucket[u].payable_uuid = u} : keys \in SUBSET PayableUuids}

\* Bucket::range(None, None, Order::Ascending): the keys in byte order
AscendingUuids == <<"uuid1", "uuid2">>
range(bucket) == SelectSeq(AscendingUuids, LAMBDA u : u \in DOMAIN bucket)

\* the attribute of a flat record that loses the approval
scope_attribute_of_unapproved(meta, state_v1) ==
    [payable_type |-> state_v1.payable_type,
     payable_uuid |-> meta.payable_uuid,
     scope_id |-> meta.scope_id,
     oracle_address |-> state_v1.oracle_address,
     payable_denom |-> meta.payable_denom,
     payable_total_owed |-> meta.payable_total_owed,
     payable_remaining_owed |-> meta.payable_remaining_owed,
     oracle_approved |-> FALSE]

\* the PayableScopeAttribute built from a flat record and the old configuration
scope_attribute_of(meta, state_v1) ==
    [payable_type |-> state_v1.payable_type,
     payable_uuid |-> meta.payable_uuid,
     scope_id |-> meta.scope_id,
     oracle_address |-> state_v1.oracle_address,
     payable_denom |-> meta.payable_denom,
     payable_total_owed |-> meta.payable_total_owed,
     payable_remaining_owed |-> meta.payable_remaining_owed,
     oracle_approved |-> meta.oracle_approved]

migrate_to_scope_attributes ==
    IF config = None THEN Fail([kind |-> "Std", msg |-> "State not found"])
    ELSE IF config_v2 # None
    THEN Fail([kind |-> "InvalidMigration", msg |-> "state v2 found - no need to migrate"])
    ELSE LET state_v1 == config[1]
             state_v2 == to_state_v2(state_v1)
             attribute_storage_ids == range(payable_meta)
             meta_v2s ==
                 [i \in 1..Len(attribute_storage_ids) |->
                    [payable_uuid |-> payable_meta[attribute_storage_ids[i]].payable_uuid,
                     scope_id |-> payable_meta[attribute_storage_ids[i]].scope_id]]
             messages ==
                 [i \in 1..Len(attribute_storage_ids) |->
                    get_add_attribute_to_scope_msg(
                        scope_attribute_of(payable_meta[attribute_storage_ids[i]], state_v1),
                        state_v2.contract_name)]
         IN [err |-> NoError,
             messages |-> messages,
             attributes |->
                 << Attribute("payables_scope_attributes_added", to_string(Len(messages))),
                    Attribute("payables_metadata_saved", to_string(Len(meta_v2s))) >>,
             config_v2 |-> state_v2,
             meta_v2s |-> meta_v2s]

\* payable_meta_storage_v2(..).save of every entry of a list, in order
RECURSIVE SaveAll(_, _)
SaveAll(bucket, meta_v2s) ==
    IF meta_v2s = <<>> THEN bucket
    ELSE SaveAll(BucketSave(bucket, meta_v2s[1]), Tail(meta_v2s))

MigrateToScopeAttributes ==
    LET response == migrate_to_scope_attributes
    IN IF IsOk(response)
       THEN /\ config_v2' = response.config_v2
            /\ payable_meta_v2' = SaveAll(payable_meta_v2, response.meta_v2s)
            /\ scope_attributes' = ApplyMsgs(scope_attributes, response.messages)
            /\ last' = "migrate_to_scope_attributes"
            /\ UNCHANGED <<config, payable_meta, version_info, scopes, hist>>
       ELSE Rejected

SchemaInit ==
    /\ config \in {Some(state_v1) : state_v1 \in States}
    /\ payable_meta \in PayableMetaBuckets
    /\ config_v2 = None
    /\ version_info = migrate_version_info
    /\ payable_meta_v2 = <<>>
    /\ scope_attributes = [s \in ScopeIds |-> <<>>]
    /\ scopes = [s \in ScopeIds |-> InitScope(s, "admin")]
    /\ hist = [s \in ScopeIds |-> NoHistory]
    /\ last = "instantiate"

SchemaNext ==
    \/ MigrateToScopeAttributes
    \/ \E info \in ApprovalInfos, oracle_approval \in UuidMsgs :
          OracleApproval(info, oracle_approval)
    \/ \E info \in ApprovalInfos, make_payment \in UuidMsgs :
          MakePayment(info, make_payment)

SchemaSpec == SchemaInit /\ [][SchemaNext]_vars

-----------------------------------------------------------------------------
(* The calls and the queries.  A query reads the state through Deps and      *)
(* returns a projection of it.                                               *)

QueryMsgs ==
    {[type |-> "query_state"]}
    \cup [type : {"query_payable_by_scope_id"}, scope_id : ScopeIds \cup {""}]
    \cup [type : {"query_payable_by_uuid"}, payable_uuid : PayableUuids \cup {""}]

QueryMsgValidate(msg) ==
    LET invalid_fields ==
            IF msg.type = "query_payable_by_scope_id" /\ msg.scope_id = ""
            THEN <<"scope_id">>
            ELSE IF msg.type = "query_payable_by_uuid" /\ msg.payable_uuid = ""
            THEN <<"payable_uuid">>
            ELSE <<>>
    IN IF invalid_fields # <<>>
       THEN Fail([kind |-> "InvalidFields", fields |-> invalid_fields])
       ELSE Ok(TRUE)

query_state == Ok(config_v2)

QueryResponse(msg) ==
    IF ~IsOk(QueryMsgValidate(msg)) THEN QueryMsgValidate(msg)
    ELSE IF msg.type = "query_state" THEN query_state
    ELSE IF msg.type = "query_payable_by_scope_id"
    THEN query_payable_attribute_by_scope_id(msg.scope_id)
    ELSE query_payable_attribute_by_uuid(msg.payable_uuid)

\* a query that resets the stored version
Query_resets_version(msg) ==
    /\ last' = "query"
    /\ version_info' = [version_info EXCEPT !.version = "0.0.0"]
    /\ UNCHANGED <<config, payable_meta, config_v2, payable_meta_v2, scope_attributes,
                   scopes, hist>>

Query(msg) ==
    /\ last' = "query"
    /\ UNCHANGED <<config, payable_meta, config_v2, version_info, payable_meta_v2,
                   scope_attributes,
                   scopes, hist>>

QueryNext ==
    \/ Next
    \/ \E msg \in QueryMsgs : Query(msg)

QuerySpec == Init /\ [][QueryNext]_vars

-----------------------------------------------------------------------------
(* Vocabulary of the properties *)

HasRecord(s) == Len(scope_attributes[s]) = 1
RecordOf(s) == scope_attributes[s][1]
Approved(s) == HasRecord(s) /\ RecordOf(s).oracle_approved
PaidOff(s) == HasRecord(s) /\ RecordOf(s).payable_remaining_owed = 0

\* the payable a uuid resolves to can be looked up
Found(payable_uuid) == IsOk(query_payable_attribute_by_uuid(payable_uuid))
Lookup(payable_uuid) == query_payable_attribute_by_uuid(payable_uuid).value

\* the denoms of a deposit other than the expected one, coin by coin
RECURSIVE OffendingDenoms(_, _)
OffendingDenoms(funds, valid_denom) ==
    IF funds = <<>> THEN <<>>
    ELSE (IF funds[1].denom = valid_denom THEN <<>> ELSE <<funds[1].denom>>)
         \o OffendingDenoms(Tail(funds), valid_denom)

\* single_attribute_for_key: the value of the first event tag with the key
TagValue(attributes, key) ==
    SelectSeq(attributes, LAMBDA a : a.key = key)[1].value

\* a response that is an error and nothing else: no message, no tag, no write
ErrorOnly(response, err) == response = [err |-> err]

-----------------------------------------------------------------------------
(* Properties *)

\* C1: in every reachable state every payable record has
\* 0 <= payable_remaining_owed <= payable_total_owed.
Inv_RemainingWithinTotal ==
    \A s \in ScopeIds : \A i \in 1..Len(scope_attributes[s]) :
        LET attr == scope_attributes[s][i]
        IN /\ 0 <= attr.payable_remaining_owed
           /\ attr.payable_remaining_owed <= attr.payable_total_owed

\* a payable that was paid down in part
Wit_PartlyPaid ==
    \E s \in ScopeIds :
        /\ HasRecord(s)
        /\ hist[s].paid > 0
        /\ 0 < RecordOf(s).payable_remaining_owed
        /\ RecordOf(s).payable_remaining_owed < RecordOf(s).payable_total_owed

\* C2: conservation.  For every payable the deposits of its successful payments
\* add up to payable_total_owed - payable_remaining_owed, and so do the bank
\* transfers those payments emitted.
Inv_Conservation ==
    \A s \in ScopeIds :
        IF HasRecord(s)
        THEN /\ hist[s].paid =
                    RecordOf(s).payable_total_owed - RecordOf(s).payable_remaining_owed
             /\ hist[s].transferred = hist[s].paid
        ELSE hist[s].paid = 0 /\ hist[s].transferred = 0

\* a payable paid off, by deposits of MaxTotal in all
Wit_PaidOff ==
    \E s \in ScopeIds :
        PaidOff(s) /\ hist[s].paid = MaxTotal /\ hist[s].transferred = MaxTotal

\* C3: the remaining owed that a lookup by payable_uuid returns never increases
\* from one state to the next.
Prop_RemainingByUuidNeverIncreases ==
    [][\A u \in PayableUuids :
          (Found(u) /\ Found(u)') =>
              Lookup(u).payable_remaining_owed' <= Lookup(u).payable_remaining_owed]_vars

\* C4: the approved flag of a payable goes from false to true only, in a
\* successful approval, and at most once.
Prop_ApprovedOnce ==
    [][\A s \in ScopeIds :
          /\ Approved(s) => Approved(s)'
          /\ (~Approved(s) /\ Approved(s)') => (last' = "approve" /\ hist'[s].approved = 1)
          /\ hist'[s].approved <= 1]_vars

\* an approval was just recorded
Wit_JustApproved ==
    /\ last = "approve"
    /\ \E s \in ScopeIds : Approved(s) /\ hist[s].approved = 1

\* C5 as claimed: every approval of an already approved payable fails with
\* DuplicateApproval.
Orig_ApprovedAlwaysDuplicate ==
    \A info \in Infos, oracle_approval \in UuidMsgs :
        (Found(oracle_approval.payable_uuid)
         /\ Lookup(oracle_approval.payable_uuid).oracle_approved) =>
            oracle_approval_with_util(info, oracle_approval).err.kind = "DuplicateApproval"

\* C5: an approval of an already approved payable fails, with FundsPresent when
\* it carries funds and with DuplicateApproval otherwise, and it is an error
\* only: no write, no payout message; no payable ever gets more than one oracle
\* payout.
Inv_ApprovalExactlyOnce ==
    /\ \A info \in Infos, oracle_approval \in UuidMsgs :
          (Found(oracle_approval.payable_uuid)
           /\ Lookup(oracle_approval.payable_uuid).oracle_approved) =>
              ErrorOnly(oracle_approval_with_util(info, oracle_approval),
                        IF info.funds = <<>>
                        THEN [kind |-> "DuplicateApproval",
                              payable_uuid |-> oracle_approval.payable_uuid]
                        ELSE [kind |-> "FundsPresent"])
    /\ \A s \in ScopeIds : hist[s].payouts <= 1

\* the oracle got its payout for a payable, and approves it once more
Wit_DuplicateApproval ==
    \E u \in PayableUuids :
        /\ Found(u)
        /\ hist[Lookup(u).scope_id].payouts = 1
        /\ oracle_approval_with_util([sender |-> Lookup(u).oracle_address, funds |-> <<>>],
                                     [payable_uuid |-> u]).err.kind = "DuplicateApproval"

\* C6: a payment on a registered payable that is not approved fails with
\* NotReadyForPayment whatever the deposit; every payable that was paid was
\* approved before, and every payable that was approved was registered before.
Inv_PaymentGatedByApproval ==
    /\ \A info \in Infos, make_payment \in UuidMsgs :
          (Found(make_payment.payable_uuid)
           /\ ~Lookup(make_payment.payable_uuid).oracle_approved) =>
              make_payment_with_util(info, make_payment).err.kind = "NotReadyForPayment"
    /\ \A s \in ScopeIds :
          /\ hist[s].paid > 0 => hist[s].approved > 0
          /\ hist[s].approved > 0 => hist[s].registered > 0

\* one payable was paid, and a payment of what another one owes is refused
\* because that one is not approved
Wit_NotReadyForPayment ==
    /\ \E s \in ScopeIds : hist[s].paid > 0
    /\ \E u \in PayableUuids, info \in Infos :
          /\ Found(u)
          /\ info.funds # <<>>
          /\ OffendingDenoms(info.funds, Lookup(u).payable_denom) = <<>>
          /\ DepositTotal(info.funds) = Lookup(u).payable_remaining_owed
          /\ make_payment_with_util(info, [payable_uuid |-> u]).err.kind
                 = "NotReadyForPayment"

\* C7: a successful payment of p on a payable with r remaining leaves r - p
\* remaining, emits one bank transfer of p in the payable's denom to the value
\* owner of the scope, and tags the amount paid p and the remaining r - p.
Inv_PaymentEffect ==
    \A info \in Infos, make_payment \in UuidMsgs :
        LET response == make_payment_with_util(info, make_payment)
            p == DepositTotal(info.funds)
        IN IsOk(response) =>
            LET attr == Lookup(make_payment.payable_uuid)
                r == attr.payable_remaining_owed
            IN /\ 0 < p /\ p <= r
               /\ ApplyMsgs(scope_attributes, response.messages) =
                      [scope_attributes EXCEPT ![attr.scope_id] =
                          <<[attr EXCEPT !.payable_remaining_owed = r - p]>>]
               /\ BankSends(response.messages) =
                      <<[type |-> "bank_send",
                         to_address |-> scopes[attr.scope_id].value_owner_address,
                         amount |-> <<[denom |-> attr.payable_denom, amount |-> p]>>]>>
               /\ parse_u128(TagValue(response.attributes, "payable_amount_paid"))
                      = Some(p)
               /\ parse_u128(TagValue(response.attributes, "payable_total_remaining"))
                      = Some(r - p)

\* a payment was just made on a payable that can take another one
Wit_PaymentMade ==
    /\ last = "pay"
    /\ \E u \in PayableUuids :
          /\ Found(u)
          /\ hist[Lookup(u).scope_id].paid > 0
          /\ Lookup(u).payable_remaining_owed > 0
          /\ \E info \in Infos : IsOk(make_payment_with_util(info, [payable_uuid |-> u]))

PaidOffRejectsEveryPayment ==
    \A info \in Infos, make_payment \in UuidMsgs :
        (Found(make_payment.payable_uuid)
         /\ Lookup(make_payment.payable_uuid).payable_remaining_owed = 0) =>
            LET kind == make_payment_with_util(info, make_payment).err.kind
                denom == Lookup(make_payment.payable_uuid).payable_denom
            IN IF OffendingDenoms(info.funds, denom) # <<>>
               THEN kind = "InvalidFundsProvided"
               ELSE IF DepositTotal(info.funds) = 0
               THEN kind = "NoFundsProvided"
               ELSE kind = "PaymentTooLarge"

Inv_PaymentAmountErrors ==
    \A info \in Infos, make_payment \in UuidMsgs :
        LET uuid == make_payment.payable_uuid
        IN (/\ Found(uuid)
            /\ Lookup(uuid).oracle_approved
            /\ OffendingDenoms(info.funds, Lookup(uuid).payable_denom) = <<>>) =>
             LET response == make_payment_with_util(info, make_payment)
                 p == DepositTotal(info.funds)
             IN /\ p = 0 =>
                      ErrorOnly(response,
                                [kind |-> "NoFundsProvided",
                                 valid_denom |-> Lookup(uuid).payable_denom])
                /\ p > Lookup(uuid).payable_remaining_owed =>
                      ErrorOnly(response,
                                [kind |-> "PaymentTooLarge",
                                 total_owed |-> Lookup(uuid).payable_remaining_owed,
                                 amount_provided |-> p])

\* a payable that still owes something refuses a deposit of zero-amount coins,
\* and a deposit above what it owes
Wit_PaymentAmountErrors ==
    \E u \in PayableUuids, none \in Infos, much \in Infos :
        /\ Found(u)
        /\ Lookup(u).payable_remaining_owed > 0
        /\ none.funds # <<>>
        /\ make_payment_with_util(none, [payable_uuid |-> u]).err.kind = "NoFundsProvided"
        /\ make_payment_with_util(much, [payable_uuid |-> u]).err.kind = "PaymentTooLarge"

RegisterDenomIsolation ==
    \A info \in Infos, register \in RegisterMsgs :
        OffendingDenoms(info.funds, config_v2.onboarding_denom) # <<>> =>
            ErrorOnly(register_payable_with_util(info, register),
                      [kind |-> "InvalidFundsProvided",
                       valid_denom |-> config_v2.onboarding_denom,
                       invalid_denoms |->
                           OffendingDenoms(info.funds, config_v2.onboarding_denom)])

PaymentDenomIsolation(uuids) ==
    \A info \in Infos, make_payment \in UuidMsgs :
        LET uuid == make_payment.payable_uuid
        IN (/\ uuid \in uuids
            /\ OffendingDenoms(info.funds, Lookup(uuid).payable_denom) # <<>>) =>
             ErrorOnly(make_payment_with_util(info, make_payment),
                       [kind |-> "InvalidFundsProvided",
                        valid_denom |-> Lookup(uuid).payable_denom,
                        invalid_denoms |->
                            OffendingDenoms(info.funds, Lookup(uuid).payable_denom)])

\* C10 as claimed: a registration deposit with a coin outside the onboarding
\* denom, and a payment deposit on a registered payable with a coin outside the
\* payable's denom, fails with InvalidFundsProvided listing the offending denoms.
Orig_DenomIsolation ==
    /\ RegisterDenomIsolation
    /\ PaymentDenomIsolation({u \in PayableUuids : Found(u)})

\* C10: a registration deposit with a coin outside the onboarding denom, and a
\* payment deposit on an approved payable with a coin outside the payable's
\* denom, fails with InvalidFundsProvided listing exactly the offending denoms,
\* and is an error only: no write, no message.
Inv_DenomIsolation ==
    /\ RegisterDenomIsolation
    /\ PaymentDenomIsolation({u \in PayableUuids : Found(u) /\ Lookup(u).oracle_approved})

\* an approved payable refuses a deposit of two coins, one of them in another denom
Wit_InvalidPaymentFunds ==
    \E u \in PayableUuids, info \in Infos :
        /\ Found(u)
        /\ Lookup(u).oracle_approved
        /\ Len(info.funds) = 2
        /\ Len(OffendingDenoms(info.funds, Lookup(u).payable_denom)) = 1
        /\ make_payment_with_util(info, [payable_uuid |-> u]).err.kind
               = "InvalidFundsProvided"

-----------------------------------------------------------------------------
(* Properties of registration and approval under any configuration *)

\* the amount a fee calculation sends with a message it may hold
SentBy(message) == IF message = None THEN 0 ELSE DepositTotal(message[1].amount)

\* the fee calculation on a deposit under the stored configuration
FeeCharge(info) == validate_fee_params_get_messages(info, config_v2)

FeeFloor ==
    CHOOSE fee \in 0..config_v2.onboarding_cost :
        /\ fee * DecimalOne <= config_v2.onboarding_cost * config_v2.fee_percent
        /\ (fee + 1) * DecimalOne > config_v2.onboarding_cost * config_v2.fee_percent

\* the transfer of an amount to an address in the onboarding denom, if any
TransferIfAny(to_address, amount) ==
    IF amount > 0
    THEN <<[type |-> "bank_send", to_address |-> to_address,
            amount |-> <<[denom |-> config_v2.onboarding_denom, amount |-> amount]>>]>>
    ELSE <<>>

Orig_NoOnboardingCoin ==
    \A info \in FeeInfos, register \in RegisterMsgs :
        (/\ config_v2.onboarding_cost > 0
         /\ FindCoin(info.funds, config_v2.onboarding_denom) = None) =>
            register_payable_with_util(info, register).err.kind = "NoFundsProvided"

\* C13: under a cost above 0, a registration whose deposit holds no coin of
\* another denom fails with NoFundsProvided when the deposit holds no coin in
\* the onboarding denom, and with InsufficientFundsProvided, carrying the cost
\* and the amount of the coin, when that coin is smaller than the cost; either
\* is an error only: no write, no message.
Inv_RegisterFundsErrors ==
    \A info \in FeeInfos, register \in RegisterMsgs :
        (/\ config_v2.onboarding_cost > 0
         /\ OffendingDenoms(info.funds, config_v2.onboarding_denom) = <<>>) =>
            LET response == register_payable_with_util(info, register)
            IN /\ info.funds = <<>> =>
                     ErrorOnly(response, [kind |-> "NoFundsProvided",
                                          valid_denom |-> config_v2.onboarding_denom])
               /\ (info.funds # <<>>
                   /\ DepositTotal(info.funds) < config_v2.onboarding_cost) =>
                     ErrorOnly(response,
                               [kind |-> "InsufficientFundsProvided",
                                amount_needed |-> config_v2.onboarding_cost,
                                amount_provided |-> DepositTotal(info.funds)])

\* under the largest cost, after a registration, one by the same sender with no
\* deposit and one with a coin just below the cost are refused
Wit_RegisterFundsErrors ==
    /\ last = "register"
    /\ config_v2.onboarding_cost = MaxCost
    /\ \E none \in FeeInfos, less \in FeeInfos, register \in RegisterMsgs :
          /\ none.funds = <<>>
          /\ register_payable_with_util(none, register).err.kind = "NoFundsProvided"
          /\ DepositTotal(less.funds) = MaxCost - 1
          /\ register_payable_with_util(less, register).err.kind
                 = "InsufficientFundsProvided"

\* the address is among the owners of the scope
IsOwner(address, scope_id) ==
    \E i \in DOMAIN scopes[scope_id].owners : scopes[scope_id].owners[i].address = address

\* C14 as claimed: without the local flag, every registration by a sender who
\* is not an owner of the target scope fails with Unauthorized.
Orig_NonOwnerUnauthorized ==
    \A info \in FeeInfos, register \in RegisterMsgs :
        (~config_v2.is_local /\ ~IsOwner(info.sender, register.scope_id)) =>
            register_payable_with_util(info, register).err.kind = "Unauthorized"

\* C14: without the local flag, a registration by a sender who is not an owner
\* of the target scope fails, with Unauthorized when its deposit passes the fee
\* checks, and is an error only, so it stores nothing; hence every
\* registration that succeeds without the local flag is by an owner of its scope.
Inv_RegisterAuthorization ==
    \A info \in FeeInfos, register \in RegisterMsgs :
        LET response == register_payable_with_util(info, register)
        IN /\ (~config_v2.is_local /\ ~IsOwner(info.sender, register.scope_id)) =>
                 /\ ~IsOk(response)
                 /\ ErrorOnly(response, response.err)
                 /\ IsOk(FeeCharge(info)) => response.err = [kind |-> "Unauthorized"]
           /\ (~config_v2.is_local /\ IsOk(response)) =>
                 IsOwner(info.sender, register.scope_id)

\* without the local flag an owner has registered a payable, and on the scope
\* that is still free a sender who is no owner is refused with a full deposit
Wit_RegisterUnauthorized ==
    /\ last = "register"
    /\ ~config_v2.is_local
    /\ \E info \in FeeInfos, register \in RegisterMsgs :
          /\ ~HasRecord(register.scope_id)
          /\ ~IsOwner(info.sender, register.scope_id)
          /\ IsOk(FeeCharge(info))
          /\ register_payable_with_util(info, register).err.kind = "Unauthorized"
          /\ IsOk(register_payable_with_util([info EXCEPT !.sender = "admin"], register))

-----------------------------------------------------------------------------
(* Properties of the lifecycle, continued *)

RegisteredRecord(register) ==
    [payable_type |-> register.payable_type,
     payable_uuid |-> register.payable_uuid,
     scope_id |-> register.scope_id,
     oracle_address |-> register.oracle_address,
     payable_denom |-> register.payable_denom,
     payable_total_owed |-> register.payable_total,
     payable_remaining_owed |-> register.payable_total,
     oracle_approved |-> FALSE]

RegisterCreatesRecord ==
    \A info \in RegisterInfos, register \in RegisterMsgs :
        LET response == register_payable_with_util(info, register)
        IN IsOk(response) =>
              /\ ApplyMsgs(scope_attributes, response.messages) =
                     [scope_attributes EXCEPT ![register.scope_id] =
                         <<RegisteredRecord(register)>>]
              /\ response.payable_meta = [payable_uuid |-> register.payable_uuid,
                                          scope_id |-> register.scope_id]

\* C16: a successful registration writes, on the target scope, the record of
\* the submitted fields with remaining = total = the submitted total and not
\* approved, and links the uuid to the scope; right after it the queries by
\* that uuid and by that scope id both return the record.
Prop_RegisterCreatesRecord ==
    /\ []RegisterCreatesRecord
    /\ [][\A s \in ScopeIds :
             (~HasRecord(s) /\ HasRecord(s)') =>
                 /\ last' = "register"
                 /\ RecordOf(s)'.scope_id = s
                 /\ RecordOf(s)'.payable_remaining_owed = RecordOf(s)'.payable_total_owed
                 /\ ~RecordOf(s)'.oracle_approved
                 /\ query_payable_attribute_by_scope_id(s)' = Ok(RecordOf(s))'
                 /\ query_payable_attribute_by_uuid(RecordOf(s).payable_uuid)'
                        = Ok(RecordOf(s))']_vars

\* a payable was just registered on the second scope to get one, and the
\* lookup by its uuid returns its record
Wit_JustRegistered ==
    /\ last = "register"
    /\ \A s \in ScopeIds : HasRecord(s)
    /\ \E u \in PayableUuids :
          /\ Found(u)
          /\ Lookup(u).payable_remaining_owed = MaxTotal
          /\ Lookup(u).payable_total_owed = MaxTotal
          /\ ~Lookup(u).oracle_approved
          /\ Lookup(u) = RecordOf(Lookup(u).scope_id)

\* C17 as claimed: every approval of an existing unapproved payable by a sender
\* other than its oracle fails with Unauthorized.
Orig_OtherSenderUnauthorized ==
    \A info \in Infos, oracle_approval \in UuidMsgs :
        (/\ Found(oracle_approval.payable_uuid)
         /\ ~Lookup(oracle_approval.payable_uuid).oracle_approved
         /\ info.sender # Lookup(oracle_approval.payable_uuid).oracle_address) =>
            oracle_approval_with_util(info, oracle_approval).err.kind = "Unauthorized"

ApprovalBySenderOnly ==
    \A info \in Infos, oracle_approval \in UuidMsgs :
        LET uuid == oracle_approval.payable_uuid
            response == oracle_approval_with_util(info, oracle_approval)
        IN /\ IsOk(response) =>
                 /\ Found(uuid)
                 /\ info.sender = Lookup(uuid).oracle_address
                 /\ info.funds = <<>>
           /\ (/\ Found(uuid)
               /\ ~Lookup(uuid).oracle_approved
               /\ info.sender # Lookup(uuid).oracle_address) =>
                 ErrorOnly(response,
                           IF info.funds = <<>> THEN [kind |-> "Unauthorized"]
                           ELSE [kind |-> "FundsPresent"])

\* C17: the approved flag of a payable becomes true only in a successful
\* approval, and an approval succeeds only for the sender that is the record's
\* oracle address and with no funds; an approval of an existing unapproved
\* payable by any other sender fails, with Unauthorized when it carries no
\* funds and with FundsPresent otherwise, and is an error only: no payout, no
\* write.
Prop_ApprovalAuthorization ==
    /\ []ApprovalBySenderOnly
    /\ [][\A s \in ScopeIds :
             (HasRecord(s) /\ ~Approved(s) /\ Approved(s)') =>
                 (last' = "approve" /\ hist'[s].approved = hist[s].approved + 1)]_vars

\* a registered payable waits for its approval, and the approval of a sender
\* who is not its oracle is refused while the oracle's goes through
Wit_ApprovalUnauthorized ==
    \E u \in PayableUuids, other \in Infos :
        /\ Found(u)
        /\ ~Lookup(u).oracle_approved
        /\ other.sender # Lookup(u).oracle_address
        /\ oracle_approval_with_util(other, [payable_uuid |-> u]).err.kind = "Unauthorized"
        /\ IsOk(oracle_approval_with_util(
                    [sender |-> Lookup(u).oracle_address, funds |-> <<>>],
                    [payable_uuid |-> u]))

\* onboarding_cost - floor(onboarding_cost * fee_percent) of the stored
\* configuration
OraclePayout == config_v2.onboarding_cost - FeeFloor

\* the messages of a successful approval of a payable: the payout to the
\* record's oracle address, if any, then the attribute delete and add
ApprovalPaysOracle ==
    \A info \in ApprovalInfos, oracle_approval \in UuidMsgs :
        LET uuid == oracle_approval.payable_uuid
            response == oracle_approval_with_util(info, oracle_approval)
            transfers == TransferIfAny(Lookup(uuid).oracle_address, OraclePayout)
            swap == SubSeq(response.messages, Len(transfers) + 1,
                           Len(response.messages))
        IN IsOk(response) =>
             /\ SubSeq(response.messages, 1, Len(transfers)) = transfers
             /\ BankSends(response.messages) = transfers
             /\ [i \in 1..Len(swap) |-> swap[i].type]
                    = <<"delete_attributes", "add_attribute">>
             /\ OraclePayout = 0 => Len(response.messages) = 2

\* C18: a successful approval pays the record's oracle address exactly
\* onboarding_cost - floor(onboarding_cost * fee_percent) in the onboarding
\* denom of the configuration stored when it is called; when that amount is 0
\* it emits no bank transfer, only the attribute delete and add.
Prop_OraclePayout ==
    /\ []ApprovalPaysOracle
    /\ [][\A s \in ScopeIds :
             hist'[s].approved = hist[s].approved + 1 =>
                 hist'[s].payouts
                    = hist[s].payouts + (IF OraclePayout > 0 THEN 1 ELSE 0)]_vars

\* a payable was approved for no payout under a configuration that gives the
\* whole of a positive onboarding cost to the fee collector
Wit_ApprovedForNothing ==
    \E s \in ScopeIds :
        /\ last = "approve"
        /\ Approved(s)
        /\ hist[s].approved = 1
        /\ hist[s].payouts = 0
        /\ config_v2.onboarding_cost > 0
        /\ config_v2.fee_percent = DecimalOne

\* the index has no entry for a uuid, or the scope of its entry carries no
\* record attribute
Missing(payable_uuid) ==
    \/ payable_uuid \notin DOMAIN payable_meta_v2
    \/ ~HasRecord(payable_meta_v2[payable_uuid].scope_id)

\* C19: an approval with no funds and a payment with any funds that name a
\* uuid with no index entry, or one whose indexed scope carries no record
\* attribute, fail with PayableNotFound naming that uuid and are an error
\* only: no write, no message.
Inv_PayableNotFound ==
    \A info \in Infos, msg \in UuidMsgs :
        LET not_found == [kind |-> "PayableNotFound",
                          payable_uuid |-> msg.payable_uuid]
        IN Missing(msg.payable_uuid) =>
             /\ info.funds = <<>> =>
                   ErrorOnly(oracle_approval_with_util(info, msg), not_found)
             /\ ErrorOnly(make_payment_with_util(info, msg), not_found)

\* one payable is registered, and an approval and a payment that name a uuid
\* the index does not hold are refused
Wit_PayableNotFound ==
    \E u \in PayableUuids, info \in Infos :
        /\ DOMAIN payable_meta_v2 # {}
        /\ u \notin DOMAIN payable_meta_v2
        /\ info.funds # <<>>
        /\ oracle_approval_with_util([info EXCEPT !.funds = <<>>],
                                     [payable_uuid |-> u]).err.kind = "PayableNotFound"
        /\ make_payment_with_util(info, [payable_uuid |-> u]).err.kind
              = "PayableNotFound"

-----------------------------------------------------------------------------
(* Properties of the calls that fail *)

\* what a call returns: the outcome of the validation of its message when that
\* fails, and of its handler otherwise
RegisterResponse(info, register) ==
    LET valid == ExecuteMsgValidate(InvalidFieldsOfRegister(register))
    IN IF IsOk(valid) THEN register_payable_with_util(info, register) ELSE valid

ApprovalResponse(info, oracle_approval) ==
    LET valid == ExecuteMsgValidate(InvalidFieldsOfUuid(oracle_approval))
    IN IF IsOk(valid) THEN oracle_approval_with_util(info, oracle_approval) ELSE valid

PaymentResponse(info, make_payment) ==
    LET valid == ExecuteMsgValidate(InvalidFieldsOfUuid(make_payment))
    IN IF IsOk(valid) THEN make_payment_with_util(info, make_payment) ELSE valid

MigrateResponse(msg) ==
    LET valid == MigrateMsgValidate(msg)
    IN IF IsOk(valid) THEN migrate_contract(to_migrate_contract_v2(msg)) ELSE valid

\* a response that is an error carries the error alone: no write, no message
NothingOnError(response) == IsOk(response) \/ ErrorOnly(response, response.err)

FailedCallsCarryNothing ==
    /\ \A info \in Infos :
          /\ \A register \in RegisterMsgs :
                NothingOnError(RegisterResponse(info, register))
          /\ \A msg \in UuidMsgs :
                /\ NothingOnError(ApprovalResponse(info, msg))
                /\ NothingOnError(PaymentResponse(info, msg))
    /\ \A msg \in MigrateMsgs : NothingOnError(MigrateResponse(msg))
    /\ \A info \in ApprovalInfos, msg \in InitMsgs :
          NothingOnError(init_contract(info, msg))

\* a step that changes the configuration, the version info, the index or a
\* record is not the step of a call that returned an error, for the calls with
\* a deposit of at most one coin
FailedCallsChangeNothing ==
    \/ UNCHANGED <<config_v2, version_info, payable_meta_v2, scope_attributes>>
    \/ /\ \A info \in RegisterInfos, register \in RegisterMsgs :
             IsOk(RegisterResponse(info, register)) \/ ~RegisterPayable(info, register)
       /\ \A info \in ApprovalInfos, msg \in UuidMsgs :
             IsOk(ApprovalResponse(info, msg)) \/ ~OracleApproval(info, msg)
       /\ \A info \in ApprovalInfos, msg \in UuidMsgs :
             IsOk(PaymentResponse(info, msg)) \/ ~MakePayment(info, msg)
       /\ \A msg \in MigrateMsgs :
             IsOk(MigrateResponse(msg)) \/ ~Migrate(msg)

-----------------------------------------------------------------------------
(* Properties of migration *)

\* the stored version, as numbers
StoredVersion == parse_sem_ver(version_info.version).value
BinaryVersion == parse_sem_ver(CONTRACT_VERSION).value

\* the stored version is above the running binary's, spelled out
Downgrade ==
    \E i \in 1..3 :
        /\ StoredVersion[i] > BinaryVersion[i]
        /\ \A j \in 1..(i - 1) : StoredVersion[j] = BinaryVersion[j]

DowngradeRejected ==
    (version_info.contract = CONTRACT_NAME /\ Downgrade) =>
        \A msg \in UpgradeMsgs :
            ErrorOnly(migrate_contract(to_migrate_contract_v2(msg)),
                      [kind |-> "InvalidContractVersion",
                       current_version |-> version_info.version,
                       migration_version |-> CONTRACT_VERSION])

\* C21: a migration of a contract whose stored version is above the running
\* binary's fails with InvalidContractVersion naming both versions and is an
\* error only, whatever fields its message supplies, and no step takes the
\* stored version from a version to a lower one or changes the configuration
\* while the stored version is above the binary's.
Prop_DowngradeGate ==
    /\ []DowngradeRejected
    /\ [][/\ version_info' # version_info =>
                ~VersionGreater(StoredVersion, StoredVersion')
          /\ (version_info.contract = CONTRACT_NAME /\ Downgrade) =>
                UNCHANGED <<config_v2, version_info>>]_vars

\* payables are registered in a contract whose stored version is 99.9.9, and a
\* migration that supplies a field is refused
Wit_DowngradeRejected ==
    /\ version_info = [contract |-> CONTRACT_NAME, version |-> "99.9.9"]
    /\ last = "register"
    /\ \E msg \in UpgradeMsgs :
          /\ msg.onboarding_cost # None
          /\ MigrateResponse(msg).err.kind = "InvalidContractVersion"

IdentityRejected ==
    version_info.contract # CONTRACT_NAME =>
        \A msg \in UpgradeMsgs :
            ErrorOnly(migrate_contract(to_migrate_contract_v2(msg)),
                      [kind |-> "InvalidContractName",
                       current_contract |-> version_info.contract,
                       migration_contract |-> CONTRACT_NAME])

\* C22: a migration of a contract whose stored identifier is not the running
\* binary's fails with InvalidContractName naming the stored and the binary's
\* identifier and is an error only, and no step changes the configuration or
\* the version info while the stored identifier differs.
Prop_IdentityGate ==
    /\ []IdentityRejected
    /\ [][version_info.contract # CONTRACT_NAME =>
             UNCHANGED <<config_v2, version_info>>]_vars

\* payables are registered in a contract stored under another identifier at
\* the binary's own version, and a migration is refused for the identifier
Wit_IdentityRejected ==
    /\ version_info = [contract |-> "Wrong name", version |-> CONTRACT_VERSION]
    /\ last = "register"
    /\ \E msg \in UpgradeMsgs :
          /\ msg.fee_percent # None
          /\ MigrateResponse(msg).err.kind = "InvalidContractName"

\* the fields of the configuration a migration can change
MigratedFields ==
    {"onboarding_cost", "onboarding_denom", "fee_collection_address", "fee_percent"}

\* the value a migration message supplies for a field, as the configuration
\* holds it
Supplied(msg, field) ==
    IF field = "onboarding_cost" THEN parse_u128(msg[field][1])[1] ELSE msg[field][1]

\* the per-field change tags of a response for a field
ChangeTags(response, field) ==
    SelectSeq(response.attributes,
              LAMBDA a : a.key = "payable_migration_state_field_" \o field)

\* what a successful migration does to the configuration, field by field
MigrationPatchesSupplied ==
    \A msg \in UpgradeMsgs :
        LET response == migrate_contract(to_migrate_contract_v2(msg))
        IN IsOk(response) =>
             /\ \A field \in MigratedFields :
                   IF msg[field] # None
                   THEN /\ response.config[field] = Supplied(msg, field)
                        /\ Len(ChangeTags(response, field)) = 1
                   ELSE /\ response.config[field] = config_v2[field]
                        /\ ChangeTags(response, field) = <<>>
             /\ \A field \in DOMAIN config_v2 \ MigratedFields :
                   response.config[field] = config_v2[field]
             /\ DOMAIN response.config = DOMAIN config_v2
             /\ response.messages = <<>>

\* C23: a successful migration sets each of onboarding_cost, onboarding_denom,
\* fee_collection_address and fee_percent that its message supplies to the
\* supplied value and tags it once, leaves every other field of the
\* configuration (contract_name and is_local among them) as it was and tags
\* none of them, and emits no message; a step that changes the configuration
\* or the version info leaves the index and every payable record as they were.
Prop_MigrationFrame ==
    /\ []MigrationPatchesSupplied
    /\ [][(config_v2' # config_v2 \/ version_info' # version_info) =>
             UNCHANGED <<payable_meta_v2, scope_attributes>>]_vars

\* a payable is registered, and the migration that followed changed the fee
\* ratio alone
Wit_FeeAloneMigrated ==
    /\ last = "migrate"
    /\ \E s \in ScopeIds : HasRecord(s)
    /\ config_v2 = [InitConfig EXCEPT !.fee_percent = 25]

\* the migration message that supplies no field
EmptyMigration ==
    [onboarding_cost |-> None, onboarding_denom |-> None,
     fee_collection_address |-> None, fee_percent |-> None,
     oracle_address |-> None]

\* the stored version info passes both gates of a migration
GatesPass == version_info.contract = CONTRACT_NAME /\ ~Downgrade

\* what the migration that supplies no field returns when the gates pass, and
\* that it returns the state it is given once the version info is the binary's
EmptyMigrationRestamps ==
    LET response == MigrateResponse(EmptyMigration)
    IN GatesPass =>
         /\ IsOk(response)
         /\ response.config = config_v2
         /\ response.messages = <<>>
         /\ response.attributes =
               << Attribute("payable_migration_contract_name", CONTRACT_NAME),
                  Attribute("payable_migration_contract_version", CONTRACT_VERSION) >>
         /\ response.version = [contract |-> CONTRACT_NAME,
                                version |-> CONTRACT_VERSION]
         /\ version_info = response.version =>
               <<response.config, response.version>> = <<config_v2, version_info>>

\* C24: a migration that supplies no field and passes the gates succeeds,
\* returns the configuration unchanged, no message and exactly the name and
\* version tags, and stores the running binary's identifier and version; its
\* step changes nothing but the version info, and once the version info is
\* the binary's, as right after an instantiation, it changes nothing at all.
Prop_EmptyMigration ==
    /\ []EmptyMigrationRestamps
    /\ [][Migrate(EmptyMigration) =>
             /\ version_info' = [contract |-> CONTRACT_NAME,
                                 version |-> CONTRACT_VERSION]
             /\ UNCHANGED <<config_v2, payable_meta_v2, scope_attributes>>
             /\ version_info = version_info' =>
                   UNCHANGED <<config_v2, version_info, payable_meta_v2,
                               scope_attributes, scopes, hist>>]_vars

\* a payable is registered, and only migrations that supply no field were
\* made: the configuration is that of the instantiation and the version info
\* the binary's
Wit_Restamped ==
    /\ last = "migrate"
    /\ \E s \in ScopeIds : HasRecord(s)
    /\ config_v2 = InitConfig
    /\ version_info = [contract |-> CONTRACT_NAME, version |-> CONTRACT_VERSION]

-----------------------------------------------------------------------------
(* Properties of instantiation *)

\* the configuration an instantiation message gives, field by field
GivenBy(msg, state) ==
    /\ state.contract_name = msg.contract_name
    /\ Some(state.onboarding_cost) = parse_u128(msg.onboarding_cost)
    /\ state.onboarding_denom = msg.onboarding_denom
    /\ state.fee_collection_address = msg.fee_collection_address
    /\ state.fee_percent = msg.fee_percent
    /\ state.is_local = (msg.is_local = Some(TRUE))

\* C25: an instantiation that comes with funds or with a fee ratio above 1
\* fails and is an error only: nothing stored, no message; one that succeeds
\* returns the configuration its message gives, the version info of the
\* running binary and exactly one message, the binding of contract_name; and
\* the state right after an instantiation holds such a configuration and
\* version info.
Inv_Instantiate ==
    /\ \A info \in ApprovalInfos, msg \in InitMsgs :
          LET response == init_contract(info, msg)
          IN /\ (info.funds # <<>> \/ msg.fee_percent > DecimalOne) =>
                   /\ ~IsOk(response)
                   /\ ErrorOnly(response, response.err)
             /\ IsOk(response) =>
                   /\ GivenBy(msg, response.config)
                   /\ response.version = [contract |-> CONTRACT_NAME,
                                          version |-> CONTRACT_VERSION]
                   /\ Len(response.messages) = 1
                   /\ response.messages[1].type = "bind_name"
                   /\ response.messages[1].name = msg.contract_name
    /\ last = "instantiate" =>
          /\ \E msg \in InitMsgs : GivenBy(msg, config_v2)
          /\ version_info = [contract |-> CONTRACT_NAME, version |-> CONTRACT_VERSION]
          /\ config = None
          /\ payable_meta = <<>>
          /\ payable_meta_v2 = <<>>

\* the state right after the instantiation of a local contract, for which an
\* instantiation with funds and one with a fee ratio above 1 were refused
Wit_Instantiated ==
    /\ last = "instantiate"
    /\ config_v2.is_local
    /\ \E info \in ApprovalInfos, msg \in InitMsgs :
          /\ info.funds # <<>>
          /\ GivenBy(msg, config_v2)
          /\ ~IsOk(init_contract(info, msg))
          /\ ~IsOk(init_contract([info EXCEPT !.funds = <<>>],
                                  [msg EXCEPT !.fee_percent = 150]))

-----------------------------------------------------------------------------
(* Properties of the configuration *)

NoConfigWrite(response) == DOMAIN response \cap {"config", "version"} = {}

CallsCarryNoConfigWrite ==
    /\ \A info \in RegisterInfos, register \in RegisterMsgs :
          NoConfigWrite(RegisterResponse(info, register))
    /\ \A info \in ApprovalInfos, msg \in UuidMsgs :
          /\ NoConfigWrite(ApprovalResponse(info, msg))
          /\ NoConfigWrite(PaymentResponse(info, msg))

-----------------------------------------------------------------------------
(* Properties of the queries *)

ByScopeId(scope_id) == [type |-> "query_payable_by_scope_id", scope_id |-> scope_id]
ByUuid(payable_uuid) == [type |-> "query_payable_by_uuid", payable_uuid |-> payable_uuid]

-----------------------------------------------------------------------------
(* Properties of the structural validation *)

\* a text, empty or not
Texts(text) == {"", text}

AnyRegisterMsgs ==
    [payable_type : Texts("invoice"), payable_uuid : Texts("uuid1"),
     scope_id : Texts("scope1"), oracle_address : Texts("matt"),
     payable_denom : Texts("usd"), payable_total : {0, MaxTotal}]

AnyUuidMsgs == [payable_uuid : Texts("uuid1")]

AnyInitMsgs ==
    [contract_name : Texts("payables.asset"),
     onboarding_cost : {"", "0", "2", "word", "-1"},
     onboarding_denom : Texts("nhash"),
     fee_collection_address : Texts("feebucket"),
     fee_percent : {0, DecimalOne, DecimalOne + 1},
     is_local : {None}]

AnyMigrateMsgs ==
    [onboarding_cost : {None, Some(""), Some("2"), Some("word")},
     onboarding_denom : {None, Some(""), Some("usd")},
     fee_collection_address : {None, Some(""), Some("admin")},
     fee_percent : {None, Some(DecimalOne), Some(DecimalOne + 1)},
     oracle_address : {None, Some(""), Some("matt")}]

\* a field of a message offends when it holds the empty text, a total of 0, a
\* cost that is not a run of digits or a fee ratio above 1
Offends(field, value) ==
    IF field = "payable_total" THEN value = 0
    ELSE IF field = "fee_percent" THEN value > DecimalOne
    ELSE IF field = "onboarding_cost"
    THEN value = "" \/ \E i \in 1..Len(value) : ~IsDigit(SubSeq(value, i, i))
    ELSE value = ""

\* a validation accepts a message with no offending field and refuses any
\* other with InvalidFields naming each offending field once
Names(response, offending) ==
    IF offending = {} THEN IsOk(response)
    ELSE /\ DOMAIN response = {"err"}
         /\ response.err.kind = "InvalidFields"
         /\ {response.err.fields[i] : i \in 1..Len(response.err.fields)} = offending
         /\ Len(response.err.fields) = Cardinality(offending)

ValidationNamesOffenders ==
    /\ \A register \in AnyRegisterMsgs :
          Names(ExecuteMsgValidate(InvalidFieldsOfRegister(register)),
                {field \in DOMAIN register : Offends(field, register[field])})
    /\ \A msg \in AnyUuidMsgs :
          Names(ExecuteMsgValidate(InvalidFieldsOfUuid(msg)),
                {field \in DOMAIN msg : Offends(field, msg[field])})
    /\ \A msg \in AnyInitMsgs :
          Names(InitMsgValidate(msg),
                {field \in DOMAIN msg \ {"is_local"} : Offends(field, msg[field])})
    /\ \A msg \in AnyMigrateMsgs :
          Names(MigrateMsgValidate(msg),
                {field \in DOMAIN msg :
                    msg[field] # None /\ Offends(field, msg[field][1])})
    /\ \A msg \in QueryMsgs :
          Names(QueryMsgValidate(msg),
                {field \in DOMAIN msg \ {"type"} : Offends(field, msg[field])})

-----------------------------------------------------------------------------
(* Properties of the index *)

\* C30: once a uuid is registered, no step changes the scope id the index
\* holds for it, and the record first registered under it stays the one the
\* lookup by uuid returns, up to its approval and its payments.
Prop_IndexEntryFixed ==
    [][\A u \in DOMAIN payable_meta_v2 :
          /\ u \in DOMAIN payable_meta_v2'
          /\ payable_meta_v2'[u].scope_id = payable_meta_v2[u].scope_id
          /\ Found(u) => (Found(u)' /\ Lookup(u)'.scope_id = Lookup(u).scope_id)]_vars

-----------------------------------------------------------------------------
\* the amount a list of coins holds in one denom
AmountIn(coins, denom) == DepositTotal(SelectSeq(coins, LAMBDA c : c.denom = denom))

\* the amount the registrations left with the contract for the oracles, and
\* the amount the approvals paid out to them, in one denom
RECURSIVE KeptTotal(_, _)
KeptTotal(scope_ids, denom) ==
    IF scope_ids = {} THEN 0
    ELSE LET s == CHOOSE x \in scope_ids : TRUE
         IN AmountIn(hist[s].fee_kept, denom) + KeptTotal(scope_ids \ {s}, denom)

RECURSIVE PaidOutTotal(_, _)
PaidOutTotal(scope_ids, denom) ==
    IF scope_ids = {} THEN 0
    ELSE LET s == CHOOSE x \in scope_ids : TRUE
         IN AmountIn(hist[s].oracle_paid, denom) + PaidOutTotal(scope_ids \ {s}, denom)

\* C31: solvency of the onboarding funds.  Over any sequence of Register,
\* Approve and Migrate calls the approvals pay out to the oracles, in every
\* denom, no more than the registrations kept for them, and the payout of a
\* payable is what its own registration kept.
Inv_Solvency ==
    /\ \A denom \in Denoms :
          PaidOutTotal(ScopeIds, denom) <= KeptTotal(ScopeIds, denom)
    /\ \A s \in ScopeIds : \A denom \in Denoms :
          hist[s].approved > 0 =>
              AmountIn(hist[s].oracle_paid, denom) = AmountIn(hist[s].fee_kept, denom)

-----------------------------------------------------------------------------
\* a deposit of one coin or more, every coin in the onboarding denom
InOnboardingDenom(funds) ==
    /\ funds # <<>>
    /\ \A i \in 1..Len(funds) : funds[i].denom = config_v2.onboarding_denom

\* C32: Register accounts for the whole deposit.  For a deposit of one coin or
\* more, all in the onboarding denom, that hold D in total, a successful
\* Register has fee_collected + oracle_fee_kept + refund = D, and no deposit
\* that holds onboarding_cost or more is refused as insufficient.
Inv_WholeDepositAccounted ==
    \A info \in Infos : \A register \in RegisterMsgs :
        InOnboardingDenom(info.funds) =>
            LET response == register_payable_with_util(info, register)
                deposit == DepositTotal(info.funds)
            IN /\ IsOk(response) =>
                      SentTotal(BankSends(response.messages))
                      + OracleFeeKept(info, config_v2).amount = deposit
               /\ deposit >= config_v2.onboarding_cost =>
                      response.err.kind # "InsufficientFundsProvided"

-----------------------------------------------------------------------------
\* the step rewrites the record of one scope, changing at most the one field,
\* and leaves the records of the other scopes and the index as they are
RewritesOnly(field) ==
    /\ \E s \in ScopeIds :
          /\ HasRecord(s) /\ HasRecord(s)'
          /\ \A f \in DOMAIN RecordOf(s) \ {field} : RecordOf(s)'[f] = RecordOf(s)[f]
          /\ DOMAIN RecordOf(s)' = DOMAIN RecordOf(s)
          /\ \A t \in ScopeIds \ {s} : scope_attributes'[t] = scope_attributes[t]
    /\ payable_meta_v2' = payable_meta_v2

\* C33: an approval leaves every field of its record but oracle_approved
\* unchanged, a payment every field but payable_remaining_owed; neither touches
\* another payable or the index; and no call deletes a record.
Prop_RecordFrames ==
    [][/\ last' = "approve" => RewritesOnly("oracle_approved")
       /\ last' = "pay" => RewritesOnly("payable_remaining_owed")
       /\ \A s \in ScopeIds :
             HasRecord(s) =>
                 /\ HasRecord(s)'
                 /\ RecordOf(s)'.payable_uuid = RecordOf(s).payable_uuid]_vars

\* a payable approved and paid down while another scope carries a record too
Wit_PaidBesideAnother ==
    /\ last = "pay"
    /\ \E s, t \in ScopeIds :
          /\ s # t /\ HasRecord(t)
          /\ hist[s].approved = 1 /\ hist[s].paid > 0
          /\ RecordOf(s).oracle_approved
          /\ RecordOf(s).payable_remaining_owed < RecordOf(s).payable_total_owed

-----------------------------------------------------------------------------
\* the uuids of the model and one that no registration carries
ApprovalTargets == [payable_uuid : PayableUuids \cup {"uuid0"}]

\* the first check of an approval that fails, in the order of the handler
FirstApprovalFailure(info, oracle_approval) ==
    LET uuid == oracle_approval.payable_uuid
    IN IF info.funds # <<>> THEN "FundsPresent"
       ELSE IF ~Found(uuid) THEN "PayableNotFound"
       ELSE IF Lookup(uuid).oracle_approved THEN "DuplicateApproval"
       ELSE IF info.sender # Lookup(uuid).oracle_address THEN "Unauthorized"
       ELSE "Ok"

\* C34: an approval applies its checks in the order FundsPresent,
\* PayableNotFound, DuplicateApproval, Unauthorized and reports the first that
\* fails: with funds it fails with FundsPresent whatever the target and the
\* sender; without funds and from a sender that is not the oracle it fails with
\* PayableNotFound on a missing payable, with DuplicateApproval on an approved
\* one, and with Unauthorized on an existing unapproved one only.
Inv_ApprovalCheckOrder ==
    \A info \in Infos, oracle_approval \in ApprovalTargets :
        LET uuid == oracle_approval.payable_uuid
            response == oracle_approval_with_util(info, oracle_approval)
        IN /\ response.err.kind = FirstApprovalFailure(info, oracle_approval)
           /\ info.funds # <<>> => ErrorOnly(response, [kind |-> "FundsPresent"])
           /\ response.err.kind = "Unauthorized" =>
                  /\ info.funds = <<>>
                  /\ Found(uuid) /\ ~Lookup(uuid).oracle_approved
                  /\ info.sender # Lookup(uuid).oracle_address

\* one payable approved, one waiting for its approval and one uuid never
\* registered: a sender who is not the oracle gets the three errors in turn,
\* and FundsPresent on each when the call carries funds
Wit_EveryApprovalError ==
    \E approved, waiting \in PayableUuids, info \in Infos :
        LET nothing == [info EXCEPT !.funds = <<>>]
        IN /\ info.funds # <<>>
           /\ Found(approved) /\ Lookup(approved).oracle_approved
           /\ Found(waiting) /\ ~Lookup(waiting).oracle_approved
           /\ info.sender # Lookup(approved).oracle_address
           /\ info.sender # Lookup(waiting).oracle_address
           /\ oracle_approval_with_util(nothing, [payable_uuid |-> approved]).err.kind
                  = "DuplicateApproval"
           /\ oracle_approval_with_util(nothing, [payable_uuid |-> waiting]).err.kind
                  = "Unauthorized"
           /\ oracle_approval_with_util(nothing, [payable_uuid |-> "uuid0"]).err.kind
                  = "PayableNotFound"
           /\ \A uuid \in {approved, waiting, "uuid0"} :
                  oracle_approval_with_util(info, [payable_uuid |-> uuid]).err.kind
                      = "FundsPresent"

-----------------------------------------------------------------------------
\* every delete of a list of messages is followed at once by an add on the
\* same scope under the same name, and every add follows such a delete
DeleteThenAdd(messages) ==
    \A i \in 1..Len(messages) :
        /\ messages[i].type = "delete_attributes" =>
               /\ i < Len(messages)
               /\ messages[i + 1].type = "add_attribute"
               /\ messages[i + 1].address = messages[i].address
               /\ messages[i + 1].name = messages[i].name
        /\ messages[i].type = "add_attribute" =>
               /\ i > 1
               /\ messages[i - 1].type = "delete_attributes"

\* the delete and the add of a record under the contract's name
Overwrite(record) ==
    << [type |-> "delete_attributes", address |-> record.scope_id,
        name |-> config_v2.contract_name],
       [type |-> "add_attribute", address |-> record.scope_id,
        name |-> config_v2.contract_name, value |-> record] >>

\* C35: every overwrite of a record is a delete-attribute message followed at
\* once by an add-attribute message on the same scope and contract name, never
\* the add first and never one without the other: a successful approval emits
\* the payout transfer if it is above 0, the delete, the add; a successful
\* payment emits the payment transfer, the delete, the add; and once the host
\* has applied the messages the scope carries exactly one attribute.
Inv_OverwriteIsDeleteThenAdd ==
    \A info \in Infos, msg \in UuidMsgs :
        LET approval == oracle_approval_with_util(info, msg)
            payment == make_payment_with_util(info, msg)
            record == Lookup(msg.payable_uuid)
        IN /\ IsOk(approval) =>
                 /\ approval.messages =
                        TransferIfAny(record.oracle_address, OraclePayout)
                        \o Overwrite([record EXCEPT !.oracle_approved = TRUE])
                 /\ DeleteThenAdd(approval.messages)
                 /\ Len(ApplyMsgs(scope_attributes, approval.messages)[record.scope_id]) = 1
           /\ IsOk(payment) =>
                 /\ Len(payment.messages) = 3
                 /\ payment.messages[1].type = "bank_send"
                 /\ SubSeq(payment.messages, 2, 3) =
                        Overwrite([record EXCEPT !.payable_remaining_owed =
                                       @ - DepositTotal(info.funds)])
                 /\ DeleteThenAdd(payment.messages)
                 /\ Len(ApplyMsgs(scope_attributes, payment.messages)[record.scope_id]) = 1

\* a payable approved with a payout and paid down, beside one approved for
\* nothing: each scope carries its one attribute
Wit_OverwrittenTwice ==
    \E s, t \in ScopeIds :
        /\ hist[s].approved = 1 /\ hist[s].payouts = 1 /\ hist[s].paid > 0
        /\ hist[t].approved = 1 /\ hist[t].payouts = 0
        /\ HasRecord(s) /\ HasRecord(t)

-----------------------------------------------------------------------------
-----------------------------------------------------------------------------
\* C37: in every reachable state a payable whose oracle_approved is false has
\* payable_remaining_owed equal to payable_total_owed: nothing is paid down
\* before the approval.
Inv_UnapprovedOwesTotal ==
    \A s \in ScopeIds : \A i \in 1..Len(scope_attributes[s]) :
        LET attr == scope_attributes[s][i]
        IN ~attr.oracle_approved =>
               /\ attr.payable_remaining_owed = attr.payable_total_owed
               /\ hist[s].paid = 0

\* a payable waits for its approval, a payment of what it owes is refused, and
\* another payable was paid down meanwhile
Wit_UnapprovedUnpaid ==
    \E u \in PayableUuids, s \in ScopeIds, info \in Infos :
        /\ Found(u) /\ ~Lookup(u).oracle_approved
        /\ DepositTotal(info.funds) = Lookup(u).payable_total_owed
        /\ invalid_payment_funds(info.funds, Lookup(u)) = <<>>
        /\ make_payment_with_util(info, [payable_uuid |-> u]).err.kind
               = "NotReadyForPayment"
        /\ s # Lookup(u).scope_id
        /\ hist[s].paid > 0

-----------------------------------------------------------------------------
\* the value owner of the scope of a payable, as the scope registry has it now
ValueOwner(payable_uuid) == scopes[Lookup(payable_uuid).scope_id].value_owner_address

\* C38: the payee of a payment is the value owner of the payable's scope as
\* the scope registry records it at the time of the call, not the registrant
\* and not a value fixed at registration: the transfer goes to that address
\* and the payee tag names it, so that two payments on one payable between
\* which the value owner changes go to the value owner current at each.
Inv_PayeeIsCurrentValueOwner ==
    \A info \in Infos, make_payment \in UuidMsgs :
        LET response == make_payment_with_util(info, make_payment)
        IN IsOk(response) =>
               /\ BankSends(response.messages) =
                      <<BankSend(ValueOwner(make_payment.payable_uuid),
                                 DepositTotal(info.funds),
                                 Lookup(make_payment.payable_uuid).payable_denom)>>
               /\ TagValue(response.attributes, "payable_payee") =
                      ValueOwner(make_payment.payable_uuid)

\* two payments on one payable went to two addresses: one to the scope owner
\* who registered it, the other to the value owner the scope got since
Wit_PayeeChanged ==
    \E s \in ScopeIds :
        /\ last = "pay"
        /\ Cardinality(hist[s].payees) = 2
        /\ scopes[s].owners[1].address \in hist[s].payees
        /\ scopes[s].value_owner_address \in hist[s].payees
        /\ scopes[s].value_owner_address # scopes[s].owners[1].address

-----------------------------------------------------------------------------
\* a deposit of one coin or more, every coin in the denom, that holds an
\* amount of 1 to limit in total
PaysUpTo(funds, denom, limit) ==
    /\ funds # <<>>
    /\ \A i \in 1..Len(funds) : funds[i].denom = denom
    /\ 0 < DepositTotal(funds) /\ DepositTotal(funds) <= limit

\* C39: a payable can always be paid off.  In every reachable state where a
\* payable is approved with a remaining owed r above 0 and its scope exists, a
\* payment by its uuid with a deposit in payable_denom of r succeeds and
\* leaves 0 owed, and a payment of any amount from 1 to r succeeds and leaves
\* r less that amount, so that every split of r into successive payments ends
\* at 0.
Inv_PayableCanBePaidOff ==
    \A s \in ScopeIds :
        (/\ HasRecord(s)
         /\ RecordOf(s).oracle_approved
         /\ RecordOf(s).payable_remaining_owed > 0
         /\ s \in DOMAIN scopes) =>
            \A info \in Infos :
                PaysUpTo(info.funds, RecordOf(s).payable_denom,
                         RecordOf(s).payable_remaining_owed) =>
                    LET response == make_payment_with_util(
                                        info, [payable_uuid |-> RecordOf(s).payable_uuid])
                    IN /\ IsOk(response)
                       /\ ApplyMsgs(scope_attributes, response.messages)[s] =
                              <<[RecordOf(s) EXCEPT !.payable_remaining_owed =
                                     @ - DepositTotal(info.funds)]>>

-----------------------------------------------------------------------------
\* the fields a flat record and an attribute share are equal
SamePayable(meta, attribute) ==
    /\ attribute.payable_uuid = meta.payable_uuid
    /\ attribute.scope_id = meta.scope_id
    /\ attribute.payable_denom = meta.payable_denom
    /\ attribute.payable_total_owed = meta.payable_total_owed
    /\ attribute.payable_remaining_owed = meta.payable_remaining_owed
    /\ attribute.oracle_approved = meta.oracle_approved

\* what the migration returns: with no new configuration stored yet, for
\* every flat record one index entry and one add-attribute message of the
\* same payable, and the new configuration copied from the old one; with the
\* new configuration stored, an error and nothing else
MigrationPreservesPayables ==
    LET response == migrate_to_scope_attributes
    IN IF config = None THEN ~IsOk(response)
       ELSE IF config_v2 # None
       THEN ErrorOnly(response, [kind |-> "InvalidMigration",
                                 msg |-> "state v2 found - no need to migrate"])
       ELSE /\ IsOk(response)
            /\ Len(response.meta_v2s) = Cardinality(DOMAIN payable_meta)
            /\ Len(response.messages) = Cardinality(DOMAIN payable_meta)
            /\ \A u \in DOMAIN payable_meta :
                  /\ Cardinality({i \in 1..Len(response.meta_v2s) :
                          response.meta_v2s[i] =
                              [payable_uuid |-> u,
                               scope_id |-> payable_meta[u].scope_id]}) = 1
                  /\ Cardinality({i \in 1..Len(response.messages) :
                          /\ response.messages[i].type = "add_attribute"
                          /\ response.messages[i].address = payable_meta[u].scope_id
                          /\ response.messages[i].name = config[1].contract_name
                          /\ SamePayable(payable_meta[u], response.messages[i].value)
                          /\ response.messages[i].value.payable_type =
                                 config[1].payable_type
                          /\ response.messages[i].value.oracle_address =
                                 config[1].oracle_address}) = 1
            /\ \A field \in DOMAIN response.config_v2 :
                  response.config_v2[field] = config[1][field]
            /\ DOMAIN response.config_v2 =
                  DOMAIN config[1] \ {"payable_type", "oracle_address"}

\* C40: the one-way migration from the flat records to the index and the
\* attributes preserves every payable: for each flat record it saves one
\* uuid-to-scope index entry and emits one add-attribute message whose record
\* has the same uuid, scope id, denom, total owed, remaining owed and approved
\* flag, with payable_type and oracle_address of the old configuration; it
\* copies the fields of the old configuration into the new one; and it fails
\* with no change once the new configuration exists, so that it takes effect
\* at most once.
Prop_SchemaMigration ==
    /\ []MigrationPreservesPayables
    /\ [][/\ config_v2 # None =>
                 /\ config_v2' = config_v2
                 /\ last' = "migrate_to_scope_attributes" => UNCHANGED vars
          /\ config_v2' # config_v2 =>
                 /\ last' = "migrate_to_scope_attributes"
                 /\ DOMAIN payable_meta_v2' = DOMAIN payable_meta
                 /\ \A u \in DOMAIN payable_meta :
                       payable_meta_v2'[u] =
                           [payable_uuid |-> u, scope_id |-> payable_meta[u].scope_id]
                 /\ UNCHANGED <<config, payable_meta>>]_vars

\* the migration has moved two payables on two scopes, one of them approved
\* and partly paid; each is found by its uuid as the flat record had it, and
\* another migration is refused
Wit_Migrated ==
    /\ last = "migrate_to_scope_attributes"
    /\ DOMAIN payable_meta = PayableUuids
    /\ \A u \in PayableUuids : Found(u) /\ SamePayable(payable_meta[u], Lookup(u))
    /\ \E u \in PayableUuids :
          /\ Lookup(u).oracle_approved
          /\ 0 < Lookup(u).payable_remaining_owed
          /\ Lookup(u).payable_remaining_owed < Lookup(u).payable_total_owed
    /\ migrate_to_scope_attributes.err.kind = "InvalidMigration"

\* two flat records shared a scope: the migration has put both attributes on
\* it, and neither payable is found by its uuid
Wit_MigratedOntoOneScope ==
    /\ last = "migrate_to_scope_attributes"
    /\ \E s \in ScopeIds : Len(scope_attributes[s]) = 2
    /\ \A u \in PayableUuids : u \in DOMAIN payable_meta_v2 /\ ~Found(u)

====
